---- MODULE Spec2Model ----
(***************************************************************************)
(* A model of glowcoil/path-tracer: the bounding-volume hierarchy          *)
(* (src/src/bvh.rs), the scene-graph nearest-hit search and the recursive  *)
(* shading engine (src/src/scene.rs).                                      *)
(*                                                                         *)
(* Coordinates are integers.  Ray parameters (the f32 distances t) are     *)
(* exact rationals [n, d] with d > 0; d = 0 stands for the two infinities  *)
(* f32::NEG_INFINITY (n < 0) and f32::INFINITY (n > 0).                    *)
(***************************************************************************)
EXTENDS Integers, Sequences, FiniteSets, TLC

VARIABLES
    \* ---- BVH::build / BVH::split (bvh.rs)
    boxes,      \* the item boxes handed to BVH::build
    root_box,   \* the root box handed to BVH::build
    nodes,      \* Vec<BVHNode> under construction / of the built BVH
    elems,      \* Vec<usize>: the index set permuted in place by split
    calls,      \* the pending part of the recursion of split (top first)
    phase,      \* where the BVH's life cycle stands
    panic,      \* the message of the panic that ended build, or "none"
    \* ---- BVH::traverse / BVHIterator (bvh.rs)
    pos, dir,   \* the ray of the traversal (BVHIterator.pos, .dir)
    stack,      \* BVHIterator.stack (last element is the top)
    yielded,    \* the indices returned so far by next()
    pushed,     \* the entries pushed on the stack since traverse, in order
    \* ---- BoundingBox::intersect called on its own (bvh.rs)
    ibox, ipos, idir,   \* the box and the ray of the call
    icalled,            \* whether the call was made
    ires,               \* what it returned
    \* ---- Scene::intersect and Scene::cast (scene.rs)
    scene,              \* the Scene: nodes, roots, materials, lights, background
    rpos, rdir,         \* the ray handed to intersect or cast
    px, py,             \* the pixel coordinates handed to cast, in quarters
    bounces,            \* the bounce budget handed to cast
    sphase,             \* "ready", "intersected" or "cast"
    sceneRet,           \* what Scene::intersect returned
    castRet,            \* the Color Scene::cast returned
    \* ---- the recursion of Scene::cast through Scene::shade (scene.rs)
    budget,             \* the bounce budget handed to Scene::cast
    shades,             \* the calls of shade in progress, outermost first
    cphase,             \* "ready", "running" or "returned"
    \* ---- the shadow factor of a Point light in Scene::shade (scene.rs)
    shadowSamples,      \* the shadow rays cast so far and what each found
    shadowRet,          \* the shadow factor, once computed
    \* ---- Geometry::intersect on a Sphere (geometry.rs)
    gpos, gdir,         \* the ray, in the local space of the sphere
    gcalled,            \* whether intersect has been called
    gres,               \* what it returned
    \* ---- Mesh::intersect (geometry.rs)
    mesh,               \* the Mesh whose BVH is nodes
    mnearest,           \* the local nearest of the call in progress
    mruns,              \* the calls that returned: ray, result, candidates
    \* ---- the render of main (main.rs)
    camera,             \* the Camera: img_width, img_height
    img,                \* the output buffer, Vec<u8>
    writes,             \* for each byte of img, the tasks that wrote it
    tasks,              \* for each pixel index, the state of its task
    \* ---- from the scene file to the first ray (load.rs, main.rs)
    scene_xml,          \* the <object> elements of the scene file
    lphase,             \* "start", "load failed", "loaded", "traced" or "trace failed"
    failure,            \* the message of the panic that ended the program, or "none"
    \* ---- reflection and refraction in one call of Scene::shade (scene.rs)
    rin,                \* the call: bounces, the material's samples, the hit, the accumulators
    rstage,             \* "test", "reflect", "refract" or "returned"
    rk,                 \* the samples taken so far in the current map
    reflected,          \* the sum of the reflected samples, then their average
    refracted,          \* the sum of the refracted samples, then their average
    fresnel,            \* ar
    rcasts,             \* the calls of cast_distance made for secondary rays
    rret                \* the colour returned

bvhVars == <<boxes, root_box, nodes, elems, calls, phase, panic, pos, dir, stack, yielded, pushed>>
boxVars == <<ibox, ipos, idir, icalled, ires>>
sceneVars == <<scene, rpos, rdir, px, py, bounces, sphase, sceneRet, castRet>>
shadeVars == <<budget, shades, cphase>>
shadowVars == <<shadowSamples, shadowRet>>
sphereVars == <<gpos, gdir, gcalled, gres>>
meshVars == <<mesh, mnearest, mruns>>
renderVars == <<camera, img, writes, tasks>>
prepareVars == <<scene_xml, lphase, failure>>
reflectVars == <<rin, rstage, rk, reflected, refracted, fresnel, rcasts, rret>>
vars == <<bvhVars, boxVars, sceneVars, shadeVars, shadowVars, sphereVars, meshVars, renderVars, prepareVars, reflectVars>>

(***************************************************************************)
(* Bounds of the model.                                                    *)
(***************************************************************************)
MaxItems == 3
DirMax == 2
MaxSceneNodes == 3
MaxBounces == 2
MaxDist == 2
MaxRuns == 2
MaxPixels == 4
MaxObjects == 2

Axes == 1..3

(***************************************************************************)
(* f32 ray parameters as exact rationals.                                  *)
(***************************************************************************)
NEG_INFINITY == [n |-> -1, d |-> 0]
INFINITY == [n |-> 1, d |-> 0]

\* a / b for b # 0, the denominator kept positive
Div(a, b) == IF b < 0 THEN [n |-> -a, d |-> -b] ELSE [n |-> a, d |-> b]

\* a < b on f32 values (no NaN arises: every divisor is a non-zero direction)
Lt(a, b) ==
    IF a.d = 0 \/ b.d = 0
    THEN IF a.d = 0 /\ b.d = 0 THEN a.n < b.n
         ELSE IF a.d = 0 THEN a.n < 0 ELSE b.n > 0
    ELSE a.n * b.d < b.n * a.d

Zero == Div(0, 1)

Le(a, b) == ~Lt(b, a)
Eq(a, b) == ~Lt(a, b) /\ ~Lt(b, a)

\* f32::max and f32::min
FMax(a, b) == IF Lt(a, b) THEN b ELSE a
FMin(a, b) == IF Lt(b, a) THEN b ELSE a

None == [some |-> FALSE]
Some(v) == [some |-> TRUE, v |-> v]

(***************************************************************************)
(* BoundingBox                                                             *)
(***************************************************************************)
BoundingBox(p1, p2) == [p1 |-> p1, p2 |-> p2]

\* One axis of BoundingBox::intersect: "miss" for the early return None,
\* otherwise the (in, out) pair of the axis.
Slab(b, p, d, a) ==
    IF d[a] = 0
    THEN IF p[a] < b.p1[a] \/ p[a] > b.p2[a]
         THEN [miss |-> TRUE]
         ELSE [miss |-> FALSE, in |-> NEG_INFINITY, out |-> INFINITY]
    ELSE LET t1 == Div(b.p1[a] - p[a], d[a])
             t2 == Div(b.p2[a] - p[a], d[a])
         IN  IF Lt(t2, t1)
             THEN [miss |-> FALSE, in |-> t2, out |-> t1]
             ELSE [miss |-> FALSE, in |-> t1, out |-> t2]

\* the final comparison made strict: t_in < t_out
SlabsOverlapStrict(t_in, t_out) == Lt(t_in, t_out)

\* the final comparison of BoundingBox::intersect
SlabsOverlap(t_in, t_out) == Le(t_in, t_out)

\* BoundingBox::intersect(&self, pos, dir) -> Option<f32>
Intersect(b, p, d) ==
    LET sx == Slab(b, p, d, 1)
        sy == Slab(b, p, d, 2)
        sz == Slab(b, p, d, 3)
    IN  IF sx.miss THEN None
        ELSE IF sy.miss THEN None
        ELSE IF sz.miss THEN None
        ELSE LET t_in == FMax(FMax(sx.in, sy.in), sz.in)
                 t_out == FMin(FMin(sx.out, sy.out), sz.out)
             IN  IF SlabsOverlap(t_in, t_out) THEN Some(t_in) ELSE None

IMin(a, b) == IF a < b THEN a ELSE b
IMax(a, b) == IF a > b THEN a ELSE b

\* union growing only the minimum corner
UnionMinOnly(self, other) ==
    [p1 |-> [a \in Axes |-> IMin(self.p1[a], other.p1[a])],
     p2 |-> self.p2]

\* BoundingBox::union(&mut self, other): the box self becomes
Union(self, other) ==
    [p1 |-> [a \in Axes |-> IMin(self.p1[a], other.p1[a])],
     p2 |-> [a \in Axes |-> IMax(self.p2[a], other.p2[a])]]

(***************************************************************************)
(* BVH::build and BVH::split                                               *)
(*                                                                         *)
(* Item indices and node indices are 0-based as in the code; the TLA+      *)
(* sequences holding them are 1-based.                                     *)
(***************************************************************************)
BoxOf(i) == boxes[i + 1]
NodeAt(i) == nodes[i + 1]

Leaf(index, bb) ==
    [kind |-> "Leaf", index |-> index, left_child |-> 0, right_child |-> 0, bounding_box |-> bb]
Node(left, right, bb) ==
    [kind |-> "Node", index |-> 0, left_child |-> left, right_child |-> right, bounding_box |-> bb]

\* a pending call split(nodes, &mut elems[lo..hi], &box, boxes); parent_len is
\* the length of the slice of the call that makes it
SplitCall(lo, hi, bb, parent_len) ==
    [op |-> "split", lo |-> lo, hi |-> hi, box |-> bb, parent_len |-> parent_len, node_index |-> 0]
\* the rest of a split call after its left recursion returned: patch
\* right_child of nodes[node_index], then recurse on elems[lo..hi]
RightHalf(node_index, lo, hi, bb, parent_len) ==
    [op |-> "right", lo |-> lo, hi |-> hi, box |-> bb, parent_len |-> parent_len, node_index |-> node_index]

\* the split axis: x if strictly the longest, else y if longer than z, else z
SplitAxis(bb) ==
    LET x_size == bb.p2[1] - bb.p1[1]
        y_size == bb.p2[2] - bb.p1[2]
        z_size == bb.p2[3] - bb.p1[3]
    IN  IF x_size > y_size /\ x_size > z_size THEN 1
        ELSE IF y_size > z_size THEN 2
        ELSE 3

\* twice the code's pivot = root_box.p1 + size / 2.0 on the axis
Pivot2(bb, a) == 2 * bb.p1[a] + (bb.p2[a] - bb.p1[a])
\* twice the code's center = (elem_box.p2 - elem_box.p1) / 2.0 on the axis
Center2(eb, a) == eb.p2[a] - eb.p1[a]

\* Swap without the temporary: elems[i] = elems[j]; elems[j] = elems[i]
SwapNoTmp(es, i, j) == [es EXCEPT ![i + 1] = es[j + 1]]

\* the body of the loop "for i in 0..elems.len()": swap elems[i] and elems[j]
Swap(es, i, j) == [es EXCEPT ![i + 1] = es[j + 1], ![j + 1] = es[i + 1]]

\* the partition loop from iteration i on; es is the slice, j the count so far
RECURSIVE PartitionLoop(_, _, _, _, _)
PartitionLoop(es, i, j, a, bb) ==
    IF i >= Len(es) THEN [elems |-> es, j |-> j]
    ELSE IF Center2(BoxOf(es[i + 1]), a) < Pivot2(bb, a)
         THEN PartitionLoop(Swap(es, i, j), i + 1, j + 1, a, bb)
         ELSE PartitionLoop(es, i + 1, j, a, bb)

\* split without the fallback to the median by count
FallbackMissing(j, len) == j

\* the fallback rounding the median up: (len + 1) / 2
FallbackRoundedUp(j, len) == IF j = 0 \/ j = len THEN (len + 1) \div 2 ELSE j

\* "if j == 0 || j == elems.len() { j = elems.len() / 2; }"
Fallback(j, len) == IF j = 0 \/ j = len THEN len \div 2 ELSE j

\* the union of the boxes of elems[lo..hi], as the loops over left_elems do
RECURSIVE UnionFrom(_, _, _)
UnionFrom(acc, es, k) ==
    IF k > Len(es) THEN acc ELSE UnionFrom(Union(acc, BoxOf(es[k])), es, k + 1)
SliceBox(es) == UnionFrom(BoxOf(es[1]), es, 2)

\* the box split is called with for the right partition ("root_box", line 144)
RightBox(bb, right_elems) == bb

\* build without its check of the input
EmptyInputUnchecked(bs) == FALSE

\* "if boxes.len() == 0 { panic!(...) }"
EmptyInput(bs) == Len(bs) = 0

\* BVH::build up to its call of split
Build ==
    /\ phase = "init"
    /\ IF EmptyInput(boxes)
       THEN /\ phase' = "panicked"
            /\ panic' = "Cannot construct empty BVH"
            /\ UNCHANGED <<nodes, elems, calls>>
       ELSE /\ phase' = "building"
            /\ nodes' = <<>>
            /\ elems' = [k \in 1..Len(boxes) |-> k - 1]
            /\ calls' = <<SplitCall(0, Len(boxes), root_box, Len(boxes) + 1)>>
            /\ UNCHANGED panic
    /\ UNCHANGED <<boxes, root_box, pos, dir, stack, yielded, pushed>>

\* split on a slice of one element: push the Leaf and return
SplitLeaf ==
    /\ phase = "building" /\ calls # <<>>
    /\ LET c == Head(calls) IN
        /\ c.op = "split"
        /\ c.hi - c.lo = 1
        /\ nodes' = Append(nodes, Leaf(elems[c.lo + 1], BoxOf(elems[c.lo + 1])))
        /\ calls' = Tail(calls)
    /\ UNCHANGED <<boxes, root_box, elems, phase, panic, pos, dir, stack, yielded, pushed>>

\* split on any other slice, up to its left recursive call: partition, push
\* the Node with right_child 0, compute left_box
SplitNode ==
    /\ phase = "building" /\ calls # <<>>
    /\ LET c == Head(calls)
           len == c.hi - c.lo
           a == SplitAxis(c.box)
           part == PartitionLoop(SubSeq(elems, c.lo + 1, c.hi), 0, 0, a, c.box)
           j == Fallback(part.j, len)
           node_index == Len(nodes)
       IN
        /\ c.op = "split"
        /\ len # 1
        /\ elems' = [k \in 1..Len(elems) |->
                        IF k > c.lo /\ k <= c.hi THEN part.elems[k - c.lo] ELSE elems[k]]
        /\ nodes' = Append(nodes, Node(node_index + 1, 0, c.box))
        /\ IF j = 0
           THEN \* left_elems[0] is out of bounds
                /\ phase' = "panicked"
                /\ panic' = "index out of bounds"
                /\ calls' = <<>>
           ELSE /\ calls' = <<SplitCall(c.lo, c.lo + j,
                                        SliceBox(SubSeq(part.elems, 1, j)), len),
                              RightHalf(node_index, c.lo + j, c.hi, c.box, len)>>
                             \o Tail(calls)
                /\ UNCHANGED <<phase, panic>>
    /\ UNCHANGED <<boxes, root_box, pos, dir, stack, yielded, pushed>>

\* the placeholder left in right_child
PatchRightSkipped(ns, node_index, right_index) == ns

\* "*right_child = right_index" on nodes[node_index]
PatchRight(ns, node_index, right_index) ==
    [ns EXCEPT ![node_index + 1].right_child = right_index]

\* split after its left recursion: patch right_child, compute right_box (not
\* used afterwards) and make the right recursive call
SplitRight ==
    /\ phase = "building" /\ calls # <<>>
    /\ LET c == Head(calls)
           right_index == Len(nodes)
           right_elems == SubSeq(elems, c.lo + 1, c.hi)
       IN
        /\ c.op = "right"
        /\ nodes' = PatchRight(nodes, c.node_index, right_index)
        /\ IF c.hi = c.lo
           THEN \* right_elems[0] is out of bounds
                /\ phase' = "panicked"
                /\ panic' = "index out of bounds"
                /\ calls' = <<>>
           ELSE /\ calls' = <<SplitCall(c.lo, c.hi, RightBox(c.box, right_elems), c.parent_len)>>
                             \o Tail(calls)
                /\ UNCHANGED <<phase, panic>>
    /\ UNCHANGED <<boxes, root_box, elems, pos, dir, stack, yielded, pushed>>

\* the outermost split returned: build returns BVH { nodes }
BuildReturn ==
    /\ phase = "building" /\ calls = <<>>
    /\ phase' = "built"
    /\ UNCHANGED <<boxes, root_box, nodes, elems, calls, panic, pos, dir, stack, yielded, pushed>>

(***************************************************************************)
(* BVH::traverse and BVHIterator::next                                     *)
(***************************************************************************)
IsSome(o) == o.some

\* PushChildren exploring only the nearer child when both boxes are hit
PushChildrenNearerOnly(n, p, d) ==
    LET left == Intersect(NodeAt(n.left_child).bounding_box, p, d)
        right == Intersect(NodeAt(n.right_child).bounding_box, p, d)
    IN  IF IsSome(left)
        THEN IF IsSome(right)
             THEN IF Lt(left.v, right.v) THEN <<n.left_child>> ELSE <<n.right_child>>
             ELSE <<n.left_child>>
        ELSE IF IsSome(right) THEN <<n.right_child>>
        ELSE <<>>

\* PushChildren with i_first pushed before i_second
PushChildrenNearerFirst(n, p, d) ==
    LET left == Intersect(NodeAt(n.left_child).bounding_box, p, d)
        right == Intersect(NodeAt(n.right_child).bounding_box, p, d)
    IN  IF IsSome(left)
        THEN IF IsSome(right)
             THEN IF Lt(left.v, right.v)
                  THEN <<n.left_child, n.right_child>>
                  ELSE <<n.right_child, n.left_child>>
             ELSE <<n.left_child>>
        ELSE IF IsSome(right) THEN <<n.right_child>>
        ELSE <<>>

\* what next pushes for the Node n it popped (the last element is the top)
PushChildren(n, p, d) ==
    LET left == Intersect(NodeAt(n.left_child).bounding_box, p, d)
        right == Intersect(NodeAt(n.right_child).bounding_box, p, d)
    IN  IF IsSome(left)
        THEN IF IsSome(right)
             THEN IF Lt(left.v, right.v)
                  THEN <<n.right_child, n.left_child>>
                  ELSE <<n.left_child, n.right_child>>
             ELSE <<n.left_child>>
        ELSE IF IsSome(right) THEN <<n.right_child>>
        ELSE <<>>

\* the loop of next reading the top of the stack without popping a Leaf
RECURSIVE NextLoopLeafKept(_, _, _)
NextLoopLeafKept(st, p, d) ==
    IF st = <<>> THEN [stack |-> st, ret |-> None]
    ELSE LET i == st[Len(st)]
             rest == SubSeq(st, 1, Len(st) - 1)
             n == NodeAt(i)
         IN  IF n.kind = "Leaf"
             THEN [stack |-> st, ret |-> Some(n.index)]
             ELSE NextLoopLeafKept(rest \o PushChildren(n, p, d), p, d)

\* "while let Some(i) = self.stack.pop() { ... }": the stack left and the
\* value returned
RECURSIVE NextLoop(_, _, _)
NextLoop(st, p, d) ==
    IF st = <<>> THEN [stack |-> st, ret |-> None]
    ELSE LET i == st[Len(st)]
             rest == SubSeq(st, 1, Len(st) - 1)
             n == NodeAt(i)
         IN  IF n.kind = "Leaf"
             THEN [stack |-> rest, ret |-> Some(n.index)]
             ELSE NextLoop(rest \o PushChildren(n, p, d), p, d)

\* the entries the loop of next pushes, in the order of the pushes
RECURSIVE NextPushes(_, _, _)
NextPushes(st, p, d) ==
    IF st = <<>> THEN <<>>
    ELSE LET i == st[Len(st)]
             rest == SubSeq(st, 1, Len(st) - 1)
             n == NodeAt(i)
         IN  IF n.kind = "Leaf"
             THEN <<>>
             ELSE PushChildren(n, p, d) \o NextPushes(rest \o PushChildren(n, p, d), p, d)

\* the rays traversals are started with
RayOrigins == {<<-1, -1, -1>>, <<2, 0, -1>>, <<0, 2, 3>>, <<1, 1, 1>>}
RayDirs == {<<1, 0, 0>>, <<0, 1, 0>>, <<0, 0, 1>>, <<1, 1, 1>>,
            <<1, 2, 0>>, <<-1, 0, 2>>, <<0, -1, 1>>, <<2, 1, 1>>}

\* BVH::traverse(&self, pos, dir)
Traverse ==
    /\ phase = "built"
    /\ \E p \in RayOrigins, d \in RayDirs :
        /\ pos' = p
        /\ dir' = d
        /\ stack' = IF IsSome(Intersect(NodeAt(0).bounding_box, p, d)) THEN <<0>> ELSE <<>>
    /\ yielded' = <<>>
    /\ pushed' = stack'
    /\ phase' = "traversing"
    /\ UNCHANGED <<boxes, root_box, nodes, elems, calls, panic>>

\* BVHIterator::next(&mut self); once it returned None the traversal is
\* "exhausted" (and next keeps returning None)
IterNext ==
    /\ phase \in {"traversing", "exhausted"}
    /\ LET r == NextLoop(stack, pos, dir) IN
        /\ stack' = r.stack
        /\ IF IsSome(r.ret)
           THEN yielded' = Append(yielded, r.ret.v) /\ UNCHANGED phase
           ELSE phase' = "exhausted" /\ UNCHANGED yielded
    /\ pushed' = pushed \o NextPushes(stack, pos, dir)
    /\ UNCHANGED <<boxes, root_box, nodes, elems, calls, panic, pos, dir>>

(***************************************************************************)
(* The inputs of the BVH: item boxes and a root box covering them.         *)
(***************************************************************************)
Vec(x, y, z) == <<x, y, z>>

\* extents of an item box along its own axis
Intervals == {<<0, 1>>, <<1, 2>>, <<0, 2>>}
\* the box spanning iv on axis a and [0, 1] on the other two
AxisBox(a, iv) ==
    BoundingBox([k \in Axes |-> IF k = a THEN iv[1] ELSE 0],
                [k \in Axes |-> IF k = a THEN iv[2] ELSE 1])
ItemBoxes == {AxisBox(a, iv) : a \in Axes, iv \in Intervals}

SeqsUpTo(S, n) == UNION {[1..k -> S] : k \in 0..n}

\* the box of all items, as the loader computes it over the vertices
RECURSIVE UnionAll(_, _, _)
UnionAll(acc, bs, k) ==
    IF k > Len(bs) THEN acc
    ELSE UnionAll([p1 |-> [a \in Axes |-> IMin(acc.p1[a], bs[k].p1[a])],
                   p2 |-> [a \in Axes |-> IMax(acc.p2[a], bs[k].p2[a])]], bs, k + 1)

\* by how much a root box may exceed the union of the item boxes
Slacks == {[lo |-> <<0, 0, 0>>, hi |-> <<0, 0, 0>>],
           [lo |-> <<1, 0, 0>>, hi |-> <<0, 1, 0>>]}
RootBoxes(bs) ==
    IF bs = <<>> THEN {BoundingBox(<<0, 0, 0>>, <<1, 1, 1>>)}
    ELSE LET u == UnionAll(bs[1], bs, 2) IN
         {BoundingBox([a \in Axes |-> u.p1[a] - s.lo[a]],
                      [a \in Axes |-> u.p2[a] + s.hi[a]]) : s \in Slacks}

IdleSphere == gcalled = FALSE /\ gres = None /\ gpos = <<0, 0, 0>> /\ gdir = <<0, 0, 0>>

IdleMesh == mesh = [vertices |-> <<>>, triangles |-> <<>>, normals |-> <<>>, normal_triangles |-> <<>>] /\ mnearest = None /\ mruns = <<>>

IdleRender == camera = [img_width |-> 0, img_height |-> 0] /\ img = <<>> /\ writes = <<>> /\ tasks = <<>>

IdlePrepare == scene_xml = <<>> /\ lphase = "idle" /\ failure = "none"

IdleReflect == rin = [bounces |-> 0] /\ rstage = "idle" /\ rk = 0 /\ reflected = <<>> /\ refracted = <<>> /\ fresnel = Zero /\ rcasts = <<>> /\ rret = None

IdleShadow == shadowSamples = <<>> /\ shadowRet = None

IdleShade == budget = 0 /\ shades = <<>> /\ cphase = "idle"

IdleScene ==
    /\ scene = [nodes |-> <<>>, roots |-> <<>>, materials |-> <<>>,
                lights |-> <<>>, background |-> None]
    /\ rpos = <<0, 0, 0>> /\ rdir = <<0, 0, 0>>
    /\ px = 0 /\ py = 0 /\ bounces = 0
    /\ sphase = "idle" /\ sceneRet = None /\ castRet = <<0, 0, 0>>

IdleBVH ==
    /\ boxes = <<>> /\ root_box = BoundingBox(<<0, 0, 0>>, <<0, 0, 0>>)
    /\ nodes = <<>> /\ elems = <<>> /\ calls = <<>>
    /\ phase = "idle" /\ panic = "none"
    /\ pos = <<0, 0, 0>> /\ dir = <<0, 0, 0>> /\ stack = <<>> /\ yielded = <<>> /\ pushed = <<>>

IdleBox ==
    /\ ibox = BoundingBox(<<0, 0, 0>>, <<0, 0, 0>>)
    /\ ipos = <<0, 0, 0>> /\ idir = <<0, 0, 0>>
    /\ icalled = FALSE /\ ires = None

InitBVH ==
    /\ boxes \in SeqsUpTo(ItemBoxes, MaxItems)
    /\ root_box \in RootBoxes(boxes)
    /\ nodes = <<>> /\ elems = <<>> /\ calls = <<>>
    /\ phase = "init" /\ panic = "none"
    /\ pos = <<0, 0, 0>> /\ dir = <<0, 0, 0>> /\ stack = <<>> /\ yielded = <<>> /\ pushed = <<>>
    /\ IdleBox /\ IdleScene /\ IdleShade /\ IdleShadow /\ IdleSphere /\ IdleMesh /\ IdleRender /\ IdlePrepare /\ IdleReflect

NextBVH ==
    \/ Build /\ UNCHANGED <<boxVars, sceneVars, shadeVars, shadowVars, sphereVars, meshVars, renderVars, prepareVars, reflectVars>>
    \/ SplitLeaf /\ UNCHANGED <<boxVars, sceneVars, shadeVars, shadowVars, sphereVars, meshVars, renderVars, prepareVars, reflectVars>>
    \/ SplitNode /\ UNCHANGED <<boxVars, sceneVars, shadeVars, shadowVars, sphereVars, meshVars, renderVars, prepareVars, reflectVars>>
    \/ SplitRight /\ UNCHANGED <<boxVars, sceneVars, shadeVars, shadowVars, sphereVars, meshVars, renderVars, prepareVars, reflectVars>>
    \/ BuildReturn /\ UNCHANGED <<boxVars, sceneVars, shadeVars, shadowVars, sphereVars, meshVars, renderVars, prepareVars, reflectVars>>
    \/ Traverse /\ UNCHANGED <<boxVars, sceneVars, shadeVars, shadowVars, sphereVars, meshVars, renderVars, prepareVars, reflectVars>>
    \/ IterNext /\ UNCHANGED <<boxVars, sceneVars, shadeVars, shadowVars, sphereVars, meshVars, renderVars, prepareVars, reflectVars>>

SpecBVH == InitBVH /\ [][NextBVH]_vars

(***************************************************************************)
(* Properties of the BVH                                                   *)
(***************************************************************************)
Items == 0..(Len(boxes) - 1)
Built == phase \in {"built", "traversing", "exhausted"}

\* box outer contains box inner: component-wise min <= and max >=
Contains(outer, inner) ==
    \A a \in Axes : outer.p1[a] <= inner.p1[a] /\ outer.p2[a] >= inner.p2[a]

RootCovers == \A k \in 1..Len(boxes) : Contains(root_box, boxes[k])

\* the items a linear scan over all item boxes finds for the ray
HitItems == {i \in Items : IsSome(Intersect(BoxOf(i), pos, dir))}
YieldedSet == {yielded[k] : k \in 1..Len(yielded)}

\* C1: for a BVH built with a root box covering every item box and a ray
\* that intersects the root box, a traversal consumed to its end has yielded
\* exactly the items whose box the ray intersects (and before its end it has
\* yielded only such items).
C1_TraverseYieldsHitLeaves ==
    (RootCovers /\ phase \in {"traversing", "exhausted"}
        /\ IsSome(Intersect(root_box, pos, dir)))
    => /\ YieldedSet \subseteq HitItems
       /\ phase = "exhausted" => YieldedSet = HitItems

C1_Witness ==
    /\ phase = "exhausted" /\ Len(boxes) = MaxItems /\ RootCovers
    /\ IsSome(Intersect(root_box, pos, dir))
    /\ Cardinality(HitItems) >= 2 /\ HitItems # Items
    /\ YieldedSet = HitItems

Leaves == {k \in 1..Len(nodes) : nodes[k].kind = "Leaf"}

\* C2: the BVH build returns has exactly N Leaf entries and every item index
\* 0..N-1 is the index of exactly one Leaf.
C2_LeavesAreThePermutedItems ==
    Built =>
        /\ Cardinality(Leaves) = Len(boxes)
        /\ \A i \in Items : Cardinality({k \in Leaves : nodes[k].index = i}) = 1

C2_Witness ==
    /\ phase = "built" /\ Len(boxes) = MaxItems
    /\ \E k \in 1..Len(elems) : elems[k] # k - 1
    /\ Cardinality(Leaves) = MaxItems

\* C3: in a built BVH whose root box covers every item box, the box of every
\* internal Node contains the boxes stored in its left and right child.
C3_NodeBoxContainsChildren ==
    (Built /\ RootCovers) =>
        \A k \in 1..Len(nodes) :
            nodes[k].kind = "Node" =>
                /\ Contains(nodes[k].bounding_box, NodeAt(nodes[k].left_child).bounding_box)
                /\ Contains(nodes[k].bounding_box, NodeAt(nodes[k].right_child).bounding_box)

C3_Witness ==
    /\ phase = "built" /\ RootCovers
    /\ \E k \in 1..Len(nodes) :
        /\ nodes[k].kind = "Node"
        /\ NodeAt(nodes[k].left_child).kind = "Node"
        /\ NodeAt(nodes[k].left_child).bounding_box # nodes[k].bounding_box

RECURSIVE PendingNodes(_)
\* the number of entries the pending calls will still push: 2 * len - 1 each
PendingNodes(cs) ==
    IF cs = <<>> THEN 0
    ELSE (2 * (Head(cs).hi - Head(cs).lo) - 1) + PendingNodes(Tail(cs))

\* every pending recursive call is on a non-empty slice strictly shorter than
\* the slice of the call that made it, and the entries pushed plus those to
\* come are 2N - 1
SplitShrinks ==
    phase = "building" =>
        /\ \A k \in 1..Len(calls) :
            /\ calls[k].hi - calls[k].lo >= 1
            /\ calls[k].hi - calls[k].lo < calls[k].parent_len
        /\ Len(nodes) + PendingNodes(calls) = 2 * Len(boxes) - 1

\* what is left of the work of build: two per entry still to push, one per
\* call waiting for its left recursion to return
RECURSIVE RightHalves(_)
RightHalves(cs) ==
    IF cs = <<>> THEN 0
    ELSE (IF Head(cs).op = "right" THEN 1 ELSE 0) + RightHalves(Tail(cs))
Measure == 2 * (2 * Len(boxes) - 1 - Len(nodes)) + RightHalves(calls)

\* C4: build terminates for every input of N >= 1 boxes: it never panics on
\* them, every split of a slice of two or more elements recurses on two
\* non-empty, strictly shorter slices, and every step of build decreases a
\* non-negative measure until build can return.
C4_BuildTerminates ==
    /\ [](SplitShrinks /\ (Len(boxes) >= 1 => panic = "none"))
    /\ [](phase = "building" => Measure >= 0 /\ (Measure = 0 <=> calls = <<>>))
    /\ [][phase = "building" => ((phase' = "building" /\ Measure' < Measure)
                                  \/ (phase' = "built" /\ Measure = 0))]_vars

C4_Witness ==
    /\ phase = "building" /\ Len(boxes) = MaxItems
    /\ \A i, k \in 1..Len(boxes) : boxes[i] = boxes[k]
    /\ Len(calls) = 2
    /\ calls[1].op = "split" /\ calls[1].parent_len = MaxItems
    /\ calls[2].op = "right" /\ calls[2].hi - calls[2].lo >= 1

\* C5: build on an empty list of boxes panics with 'Cannot construct empty
\* BVH' and produces no BVH; every BVH that is built or traversed has an
\* entry 0.
C5_EmptyInputPanics ==
    /\ (Len(boxes) = 0 /\ phase # "init") =>
            /\ phase = "panicked"
            /\ panic = "Cannot construct empty BVH"
            /\ nodes = <<>>
    /\ Built => Len(nodes) >= 1

C5_Witness ==
    Len(boxes) = 0 /\ phase = "panicked" /\ panic = "Cannot construct empty BVH"

(***************************************************************************)
(* BoundingBox::intersect on its own: one call on a box and a ray          *)
(***************************************************************************)
\* the unit boxes of the BVH items and the boxes of Geometry::Sphere and
\* Geometry::Plane (geometry.rs, Bounded for Geometry)
BoxInputs ==
    ItemBoxes \cup {BoundingBox(<<-1, -1, -1>>, <<1, 1, 1>>),
                    BoundingBox(<<-1, -1, 0>>, <<1, 1, 0>>)}
PosCoords == {-1, 0, 1, 3}
DirCoords == (-DirMax)..DirMax

CallIntersect ==
    /\ ~icalled
    /\ icalled' = TRUE
    /\ ires' = Intersect(ibox, ipos, idir)
    /\ UNCHANGED <<ibox, ipos, idir>>

InitBox ==
    /\ ibox \in BoxInputs
    /\ ipos \in PosCoords \X PosCoords \X PosCoords
    /\ idir \in DirCoords \X DirCoords \X DirCoords
    /\ icalled = FALSE /\ ires = None
    /\ IdleBVH /\ IdleScene /\ IdleShade /\ IdleShadow /\ IdleSphere /\ IdleMesh /\ IdleRender /\ IdlePrepare /\ IdleReflect

NextBox == CallIntersect /\ UNCHANGED <<bvhVars, sceneVars, shadeVars, shadowVars, sphereVars, meshVars, renderVars, prepareVars, reflectVars>>

SpecBox == InitBox /\ [][NextBox]_vars

\* the axes on which the ray moves
Moving == {a \in Axes : idir[a] # 0}
\* on a zero axis of dir the origin lies outside the slab of the box
ZeroAxisOutside ==
    \E a \in Axes : idir[a] = 0 /\ (ipos[a] < ibox.p1[a] \/ ipos[a] > ibox.p2[a])
\* the distances at which the ray crosses the two planes of axis a
Cross1(a) == Div(ibox.p1[a] - ipos[a], idir[a])
Cross2(a) == Div(ibox.p2[a] - ipos[a], idir[a])
Entry(a) == IF Lt(Cross2(a), Cross1(a)) THEN Cross2(a) ELSE Cross1(a)
Exit(a) == IF Lt(Cross2(a), Cross1(a)) THEN Cross1(a) ELSE Cross2(a)
\* t is the maximum of the entries (the negative infinity if no axis moves)
IsMaxEntry(t) ==
    IF Moving = {} THEN t = NEG_INFINITY
    ELSE /\ \E a \in Moving : Eq(t, Entry(a))
         /\ \A a \in Moving : Le(Entry(a), t)
\* max of entries <= min of exits
EntriesBeforeExits == \A a, c \in Moving : Le(Entry(a), Exit(c))
\* the point pos + t * dir lies in the box
PointInBox(t) ==
    \A a \in Axes :
        /\ ibox.p1[a] * t.d <= ipos[a] * t.d + t.n * idir[a]
        /\ ipos[a] * t.d + t.n * idir[a] <= ibox.p2[a] * t.d
\* the line through pos along dir meets the box: if it does, it does so at
\* the origin or where it crosses a plane of the box
LineMeetsBox ==
    \/ PointInBox(Div(0, 1))
    \/ \E a \in Moving : PointInBox(Cross1(a)) \/ PointInBox(Cross2(a))

\* C6: intersect returns None if on some axis dir is zero and the origin is
\* outside the slab; otherwise it returns Some(max of the entries over the
\* moving axes) exactly when max of entries <= min of exits, else None.  It
\* reports a hit exactly when the whole line (negative distances included)
\* meets the box.
C6_IntersectIsSlabTest ==
    icalled =>
        /\ IF ZeroAxisOutside THEN ires = None
           ELSE IF EntriesBeforeExits THEN IsSome(ires) /\ IsMaxEntry(ires.v)
           ELSE ires = None
        /\ IsSome(ires) <=> LineMeetsBox

\* a box lying entirely behind the origin of the ray, reported as hit at a
\* negative distance
C6_Witness ==
    /\ icalled /\ IsSome(ires)
    /\ Cardinality(Moving) >= 2
    /\ Lt(ires.v, Zero)
    /\ \A a \in Moving : Lt(Exit(a), Zero)

(***************************************************************************)
(* Vectors, Matrix3 and Transform (scene.rs)                               *)
(*                                                                         *)
(* Points a ray reaches are kept exact as [v, d]: the point v / d.         *)
(***************************************************************************)
VAdd(u, w) == <<u[1] + w[1], u[2] + w[2], u[3] + w[3]>>
VSub(u, w) == <<u[1] - w[1], u[2] - w[2], u[3] - w[3]>>
VScale(k, u) == <<k * u[1], k * u[2], k * u[3]>>
MulElementWise(u, w) == <<u[1] * w[1], u[2] * w[2], u[3] * w[3]>>

\* Matrix3 * Vector3, the matrix given by its rows
MulMV(m, u) ==
    <<m[1][1] * u[1] + m[1][2] * u[2] + m[1][3] * u[3],
      m[2][1] * u[1] + m[2][2] * u[2] + m[2][3] * u[3],
      m[3][1] * u[1] + m[3][2] * u[2] + m[3][3] * u[3]>>
Transpose(m) ==
    <<<<m[1][1], m[2][1], m[3][1]>>,
      <<m[1][2], m[2][2], m[3][2]>>,
      <<m[1][3], m[2][3], m[3][3]>>>>
Det(m) ==
      m[1][1] * (m[2][2] * m[3][3] - m[2][3] * m[3][2])
    - m[1][2] * (m[2][1] * m[3][3] - m[2][3] * m[3][1])
    + m[1][3] * (m[2][1] * m[3][2] - m[2][2] * m[3][1])
\* the 2x2 minor of m without row i and column j
Minor(m, i, j) ==
    LET r == IF i = 1 THEN <<2, 3>> ELSE IF i = 2 THEN <<1, 3>> ELSE <<1, 2>>
        c == IF j = 1 THEN <<2, 3>> ELSE IF j = 2 THEN <<1, 3>> ELSE <<1, 2>>
    IN  m[r[1]][c[1]] * m[r[2]][c[2]] - m[r[1]][c[2]] * m[r[2]][c[1]]
Cofactor(m, i, j) == (IF (i + j) % 2 = 0 THEN 1 ELSE -1) * Minor(m, i, j)
\* SquareMatrix::invert: None for a singular matrix, else adjugate / det;
\* the matrices of the model have determinant 1 or -1, where 1 / det = det
Invert(m) ==
    LET det == Det(m)
    IN  IF det = 0 THEN None
        ELSE Some(<<<<Cofactor(m, 1, 1) * det, Cofactor(m, 2, 1) * det, Cofactor(m, 3, 1) * det>>,
                    <<Cofactor(m, 1, 2) * det, Cofactor(m, 2, 2) * det, Cofactor(m, 3, 2) * det>>,
                    <<Cofactor(m, 1, 3) * det, Cofactor(m, 2, 3) * det, Cofactor(m, 3, 3) * det>>>>)
Unwrap(o) == o.v

Sign(k) == IF k > 0 THEN 1 ELSE IF k < 0 THEN -1 ELSE 0
\* InnerSpace::normalize, exact on the vectors along one axis, the only ones
\* the normals of the model are
Normalize(u) == <<Sign(u[1]), Sign(u[2]), Sign(u[3])>>

One == <<<<1, 0, 0>>, <<0, 1, 0>>, <<0, 0, 1>>>>
MkTransform(m, t) == [transform |-> m, translate |-> t]
\* Transform::default
DefaultTransform == MkTransform(One, <<0, 0, 0>>)

\* Transform::to_local_space
ToLocalSpace(tr, u) == MulMV(Unwrap(Invert(tr.transform)), VSub(u, tr.translate))
\* Transform::from_local_space, on an exact point
FromLocalSpace(tr, pt) ==
    [v |-> VAdd(MulMV(tr.transform, pt.v), VScale(pt.d, tr.translate)), d |-> pt.d]
\* Transform::normal_from_local_space
NormalFromLocalSpace(tr, normal) ==
    Normalize(MulMV(Transpose(Unwrap(Invert(tr.transform))), normal))
\* Node::ray_to_local_space
RayToLocalSpace(tr, p, d) ==
    LET local_pos == ToLocalSpace(tr, p)
        local_dir == VSub(ToLocalSpace(tr, VAdd(p, d)), local_pos)
    IN  <<local_pos, local_dir>>

(***************************************************************************)
(* Geometry::intersect (geometry.rs), for Geometry::Plane                  *)
(***************************************************************************)
\* Bounded for Geometry
GeometryBox(g) ==
    IF g = "Sphere" THEN BoundingBox(<<-1, -1, -1>>, <<1, 1, 1>>)
    ELSE BoundingBox(<<-1, -1, 0>>, <<1, 1, 0>>)

HitInfo(z, pt, normal, side) == [z |-> z, pos |-> pt, normal |-> normal, side |-> side]

\* the Plane arm: t = -(pos.z / dir.z).  With dir.z = 0 the box test before
\* it lets only pos.z = 0 through, t is NaN and "t > 0.0" is false.
PlaneIntersect(p, d) ==
    IF d[3] = 0 THEN None
    ELSE LET t == Div(-p[3], d[3])
             pt == [v |-> <<p[1] * t.d + t.n * d[1], p[2] * t.d + t.n * d[2],
                           p[3] * t.d + t.n * d[3]>>, d |-> t.d]
         IN  IF Lt(Zero, t)
             THEN IF /\ -pt.d < pt.v[1] /\ pt.v[1] < pt.d
                     /\ -pt.d < pt.v[2] /\ pt.v[2] < pt.d
                  THEN Some(HitInfo(t, pt, <<0, 0, 1>>,
                                    IF p[3] > 0 THEN "Front" ELSE "Back"))
                  ELSE None
             ELSE None

GeometryIntersect(g, p, d) ==
    IF ~IsSome(Intersect(GeometryBox(g), p, d)) THEN None
    ELSE PlaneIntersect(p, d)

(***************************************************************************)
(* Node::intersect and Scene::intersect (scene.rs)                         *)
(*                                                                         *)
(* scene.nodes holds every Node of the forest; a Node's children and the   *)
(* scene's roots are sequences of positions in it, and a &Node is the      *)
(* position of the node.                                                   *)
(***************************************************************************)
\* "let x = value; body": the body on the value, the value computed once
Let(value, body(_)) == CHOOSE out \in {body(x) : x \in {value}} : TRUE

\* children handed the ray of the enclosing space instead
ChildRayUntransformed(local, p, d) == <<p, d>>

\* the ray Node::intersect hands to its children
ChildRay(local, p, d) == local

\* the comparison of Node::intersect: the new hit replaces nearest if its z
\* is strictly smaller
NodeNearer(nearest, found) ==
    IF IsSome(nearest)
    THEN IF Lt(found.hit.z, nearest.v.hit.z) THEN Some(found) ELSE nearest
    ELSE Some(found)

\* the returned &Node replaced by the node that is returning
OwningNodeSelf(self_id, nearest_node) == self_id

\* "(HitInfo { ... }, node)": the &Node of nearest is returned as it is
OwningNode(self_id, nearest_node) == nearest_node

RECURSIVE NodeIntersect(_, _, _)
RECURSIVE ChildrenLoop(_, _, _, _, _)
\* "for child in self.children.iter()" from the k-th child on
ChildrenLoop(children, k, nearest, p, d) ==
    IF k > Len(children) THEN nearest
    ELSE Let(NodeIntersect(children[k], p, d),
             LAMBDA r : ChildrenLoop(children, k + 1,
                            IF IsSome(r) THEN NodeNearer(nearest, r.v) ELSE nearest, p, d))

\* Node::intersect(&self, pos, dir) -> Option<(HitInfo, &Node)>
NodeIntersect(id, p, d) ==
    LET self == scene.nodes[id]
    IN  Let(RayToLocalSpace(self.transform, p, d), LAMBDA local :
        Let(IF IsSome(self.object)
            THEN GeometryIntersect(self.object.v.geometry, local[1], local[2])
            ELSE None, LAMBDA own :
        Let(ChildRay(local, p, d), LAMBDA cr :
        Let(ChildrenLoop(self.children, 1,
                         IF IsSome(own) THEN Some([hit |-> own.v, node |-> id]) ELSE None,
                         cr[1], cr[2]), LAMBDA nearest :
            IF IsSome(nearest)
            THEN Some([hit |-> HitInfo(nearest.v.hit.z,
                                       FromLocalSpace(self.transform, nearest.v.hit.pos),
                                       NormalFromLocalSpace(self.transform, nearest.v.hit.normal),
                                       nearest.v.hit.side),
                       node |-> OwningNode(id, nearest.v.node)])
            ELSE None))))

\* a comparison that lets a later root of equal z replace the nearest one
SceneNearerOrEqual(nearest, found) ==
    IF IsSome(nearest)
    THEN IF Le(found.hit.z, nearest.v.hit.z) THEN Some(found) ELSE nearest
    ELSE Some(found)

\* the comparison of Scene::intersect
SceneNearer(nearest, found) ==
    IF IsSome(nearest)
    THEN IF Lt(found.hit.z, nearest.v.hit.z) THEN Some(found) ELSE nearest
    ELSE Some(found)

\* "for node in self.nodes.iter()" from the k-th root on
RECURSIVE RootsLoop(_, _, _, _)
RootsLoop(k, nearest, p, d) ==
    IF k > Len(scene.roots) THEN nearest
    ELSE Let(NodeIntersect(scene.roots[k], p, d),
             LAMBDA r : RootsLoop(k + 1,
                            IF IsSome(r) THEN SceneNearer(nearest, r.v) ELSE nearest, p, d))

\* Scene::intersect(&self, pos, dir) -> Option<(HitInfo, &Node)>
SceneIntersect(p, d) == RootsLoop(1, None, p, d)

(***************************************************************************)
(* Texture::sample, Scene::shade, Scene::cast_distance, Scene::cast        *)
(*                                                                         *)
(* Texture coordinates are in quarters: the point <<1, 3, 0>> is           *)
(* (0.25, 0.75, 0).  Colours are integer triples.                          *)
(***************************************************************************)
\* "x - (x as i32) as f32", plus 1.0 if negative: the cast truncates to zero
UnitClampCoord(c) ==
    LET whole == IF c >= 0 THEN 4 * (c \div 4) ELSE -(4 * ((-c) \div 4))
        x == c - whole
    IN  IF x < 0 THEN x + 4 ELSE x
\* unit_clamp
UnitClamp(point) ==
    <<UnitClampCoord(point[1]), UnitClampCoord(point[2]), UnitClampCoord(point[3])>>

\* TextureData::sample, for Blank and Checkerboard (0.5 is 2 quarters)
TextureDataSample(data, point) ==
    IF data.kind = "Blank" THEN <<1, 1, 1>>
    ELSE LET clamped == UnitClamp(point)
         IN  IF \/ (clamped[1] < 2 /\ clamped[2] < 2)
                \/ (clamped[1] > 2 /\ clamped[2] > 2)
             THEN data.color1
             ELSE data.color2

\* Texture::sample
TextureSample(tex, point) ==
    MulElementWise(tex.color, TextureDataSample(tex.data, ToLocalSpace(tex.transform, point)))

Dot(u, w) == u[1] * w[1] + u[2] * w[2] + u[3] * w[3]

\* ".max(0.0).min(1.0)"
Clamp01(x) == IF x < 0 THEN 0 ELSE IF x > 1 THEN 1 ELSE x

\* the loop over the lights in Scene::shade, on Ambient and Directional
\* lights, from the k-th light on; acc holds diffuse_color and
\* specular_color.  The direction of a Directional light is along an axis,
\* where normalize and the dot product with the normal are exact.  The
\* factor n_dot_h^glossiness of the specular term is taken as 1: the
\* specular samples of the materials of the model are zero, and the term
\* is then zero whatever the factor.
RECURSIVE LightsLoop(_, _, _, _, _)
LightsLoop(k, acc, diffuse, specular, hit_info) ==
    IF k > Len(scene.lights) THEN acc
    ELSE LET light == scene.lights[k]
         IN  IF light.light_type.kind = "Ambient"
             THEN LightsLoop(k + 1,
                             [acc EXCEPT !.diffuse_color =
                                 VAdd(@, VScale(light.intensity,
                                                MulElementWise(light.color, diffuse)))],
                             diffuse, specular, hit_info)
             ELSE LET l == Normalize(VScale(-1, light.light_type.direction))
                      \* "shadow = 1.0;": no shadow ray is cast
                      shadow == 1
                      n_dot_l == Clamp01(Dot(hit_info.normal, l))
                      light_color == VScale(shadow * light.intensity * n_dot_l, light.color)
                 IN  LightsLoop(k + 1,
                                [diffuse_color |->
                                     VAdd(acc.diffuse_color, MulElementWise(light_color, diffuse)),
                                 specular_color |->
                                     VAdd(acc.specular_color, MulElementWise(light_color, specular))],
                                diffuse, specular, hit_info)

\* Scene::shade for a bounce budget that is not positive and Ambient and
\* Directional lights: no ray is cast, no random number drawn, and the
\* result is diffuse_color + specular_color
Shade(p, d, hit_info, material, b) ==
    LET diffuse == TextureSample(material.diffuse, hit_info.uv)
        specular == TextureSample(material.specular, hit_info.uv)
    IN  Let(LightsLoop(1, [diffuse_color |-> <<0, 0, 0>>, specular_color |-> <<0, 0, 0>>],
                       diffuse, specular, hit_info),
            LAMBDA acc : VAdd(acc.diffuse_color, acc.specular_color))

\* Scene::cast_distance
CastDistance(p, d, b) ==
    Let(SceneIntersect(p, d), LAMBDA found :
        IF IsSome(found)
        THEN LET node == scene.nodes[found.v.node]
                 material == scene.materials[Unwrap(node.object).material]
                 \* geometry.rs builds HitInfo without uv; the textures of the
                 \* model are sampled at the origin of uv space
                 hit_info == found.v.hit @@ [uv |-> <<0, 0, 0>>]
             IN  Some([color |-> Shade(p, d, hit_info, material, b), z |-> found.v.hit.z])
        ELSE None)

\* the background sampled with the pixel coordinates exchanged
BackgroundPointSwapped(x, y) == <<y, x, 0>>

\* the point Scene::cast samples the background at
BackgroundPoint(x, y) == <<x, y, 0>>

\* Scene::cast(&self, pos, dir, x, y, bounces) -> Color
Cast(p, d, x, y, b) ==
    Let(CastDistance(p, d, b), LAMBDA r :
        IF IsSome(r) THEN r.v.color
        ELSE TextureSample(scene.background, BackgroundPoint(x, y)))

(***************************************************************************)
(* The scenes, rays and pixels of the model                                *)
(***************************************************************************)
\* scale z by -1 (load_transform, "scale") and a quarter turn about z
\* (load_transform, "rotate")
FlipZ == <<<<1, 0, 0>>, <<0, 1, 0>>, <<0, 0, -1>>>>
RotZ90 == <<<<0, -1, 0>>, <<1, 0, 0>>, <<0, 0, 1>>>>

Plane(material) == Some([geometry |-> "Plane", material |-> material])

\* what a node of the forest is, its children apart
NodeKinds ==
    {[object |-> Plane("b"), transform |-> MkTransform(One, <<0, 0, 1>>)],
     [object |-> Plane("a"), transform |-> MkTransform(FlipZ, <<0, 0, -1>>)],
     [object |-> None, transform |-> MkTransform(RotZ90, <<1, 0, 0>>)]}

RECURSIVE Ascending(_)
\* the elements of a set of numbers in ascending order
Ascending(S) ==
    IF S = {} THEN <<>>
    ELSE LET m == CHOOSE x \in S : \A y \in S : x <= y
         IN  <<m>> \o Ascending(S \ {m})

\* the forests of n nodes: node i is owned by parent[i] < i (0: by the scene)
Parents(n) == {par \in [1..n -> 0..n] : \A i \in 1..n : par[i] < i}
Forest(n, par, kind) ==
    [nodes |-> [i \in 1..n |->
                    [object |-> kind[i].object, transform |-> kind[i].transform,
                     children |-> Ascending({k \in 1..n : par[k] = i})]],
     roots |-> Ascending({k \in 1..n : par[k] = 0})]

BlankTexture(color) ==
    [data |-> [kind |-> "Blank"], color |-> color, transform |-> DefaultTransform]
MkMaterial(diffuse) ==
    [diffuse |-> BlankTexture(diffuse), specular |-> BlankTexture(<<0, 0, 0>>),
     reflection |-> BlankTexture(<<0, 0, 0>>), refraction |-> BlankTexture(<<0, 0, 0>>)]
Materials == [m \in {"a", "b"} |-> IF m = "a" THEN MkMaterial(<<1, 0, 1>>)
                                   ELSE MkMaterial(<<0, 1, 1>>)]
AmbientLight(intensity, color) ==
    [intensity |-> intensity, color |-> color, light_type |-> [kind |-> "Ambient"]]
Lights == <<AmbientLight(1, <<1, 1, 1>>), AmbientLight(2, <<0, 0, 1>>)>>
\* the default checkerboard of load_texture, shifted by a quarter along x
Background ==
    [data |-> [kind |-> "Checkerboard", color1 |-> <<0, 0, 0>>, color2 |-> <<1, 1, 1>>],
     color |-> <<1, 1, 1>>,
     transform |-> MkTransform(One, <<1, 0, 0>>)]

Scenes ==
    {[nodes |-> f.nodes, roots |-> f.roots, materials |-> Materials,
      lights |-> Lights, background |-> Background] :
        f \in UNION {{Forest(n, par, kind) : par \in Parents(n), kind \in [1..n -> NodeKinds]} :
                        n \in 0..MaxSceneNodes}}

SceneRays ==
    {<<<<0, 0, 3>>, <<0, 0, -1>>>>, <<<<0, 0, 3>>, <<0, 0, -2>>>>,
     <<<<0, 0, -3>>, <<0, 0, 1>>>>, <<<<3, 0, 3>>, <<-1, 0, -1>>>>}
PixelCoords == {<<1, 0>>, <<3, 1>>}

\* a call of Scene::intersect on the ray
CallSceneIntersect ==
    /\ sphase = "ready"
    /\ sceneRet' = SceneIntersect(rpos, rdir)
    /\ sphase' = "intersected"
    /\ UNCHANGED <<scene, rpos, rdir, px, py, bounces, castRet>>

\* a call of Scene::cast on the ray, for some pixel
CallCast ==
    /\ sphase = "ready"
    /\ \E xy \in PixelCoords :
        /\ px' = xy[1]
        /\ py' = xy[2]
        /\ castRet' = Cast(rpos, rdir, xy[1], xy[2], bounces)
    /\ sphase' = "cast"
    /\ UNCHANGED <<scene, rpos, rdir, bounces, sceneRet>>

InitScene ==
    /\ scene \in Scenes
    /\ \E ray \in SceneRays : rpos = ray[1] /\ rdir = ray[2]
    /\ px = 0 /\ py = 0 /\ bounces = 0
    /\ sphase = "ready" /\ sceneRet = None /\ castRet = <<0, 0, 0>>
    /\ IdleBVH /\ IdleBox /\ IdleShade /\ IdleShadow /\ IdleSphere /\ IdleMesh /\ IdleRender /\ IdlePrepare /\ IdleReflect

NextScene ==
    \/ CallSceneIntersect /\ UNCHANGED <<bvhVars, boxVars, shadeVars, shadowVars, sphereVars, meshVars, renderVars, prepareVars, reflectVars>>
    \/ CallCast /\ UNCHANGED <<bvhVars, boxVars, shadeVars, shadowVars, sphereVars, meshVars, renderVars, prepareVars, reflectVars>>

SpecScene == InitScene /\ [][NextScene]_vars

(***************************************************************************)
(* Properties of Scene::intersect, Node::intersect and Scene::cast         *)
(***************************************************************************)
\* what each root reports for the ray
RootReports == [i \in 1..Len(scene.roots) |-> NodeIntersect(scene.roots[i], rpos, rdir)]
RootHits == {i \in 1..Len(scene.roots) : IsSome(RootReports[i])}

\* C7: Scene::intersect returns None iff no root node reports a hit;
\* otherwise it returns the report of a root whose z is the minimum over
\* the reports of all roots, node included, and among roots of equal z the
\* earliest in the list.
C7_SceneIntersectIsFirstMinimum ==
    sphase = "intersected" =>
        \A reports \in {RootReports} :
        \A hits \in {{i \in 1..Len(scene.roots) : IsSome(reports[i])}} :
            /\ (sceneRet = None) <=> (hits = {})
            /\ hits # {} =>
                \E i \in hits :
                    /\ sceneRet = reports[i]
                    /\ \A j \in hits : Le(reports[i].v.hit.z, reports[j].v.hit.z)
                    /\ \A j \in hits : j < i => Lt(reports[i].v.hit.z, reports[j].v.hit.z)

\* two roots report the same z, a third a larger one, and the earlier of
\* the two nearest is returned
C7_Witness ==
    /\ sphase = "intersected"
    /\ \E i, j, k \in RootHits :
        /\ i < j
        /\ Eq(RootReports[i].v.hit.z, RootReports[j].v.hit.z)
        /\ Lt(RootReports[i].v.hit.z, RootReports[k].v.hit.z)
        /\ RootReports[i].v.node # RootReports[j].v.node
        /\ sceneRet = RootReports[i]

\* the node that holds id among its children, 0 for a root
ParentOf(id) ==
    IF \E q \in 1..Len(scene.nodes) : \E k \in 1..Len(scene.nodes[q].children) :
            scene.nodes[q].children[k] = id
    THEN CHOOSE q \in 1..Len(scene.nodes) : \E k \in 1..Len(scene.nodes[q].children) :
            scene.nodes[q].children[k] = id
    ELSE 0

RECURSIVE RayInto(_)
\* the ray in the space that encloses node id: the scene's ray carried into
\* the local space of each node above id in turn
RayInto(id) ==
    IF ParentOf(id) = 0 THEN <<rpos, rdir>>
    ELSE Let(RayInto(ParentOf(id)), LAMBDA above :
             RayToLocalSpace(scene.nodes[ParentOf(id)].transform, above[1], above[2]))

\* the ray in the local space of node id
LocalRay(id) ==
    Let(RayInto(id), LAMBDA ray : RayToLocalSpace(scene.nodes[id].transform, ray[1], ray[2]))

\* the hit of the node's own object with the ray of its local space
OwnHit(id) ==
    IF IsSome(scene.nodes[id].object)
    THEN Let(LocalRay(id), LAMBDA ray :
             GeometryIntersect(scene.nodes[id].object.v.geometry, ray[1], ray[2]))
    ELSE None

RECURSIVE Subtree(_)
\* the node and all its descendants
Subtree(id) ==
    {id} \cup UNION {Subtree(scene.nodes[id].children[k]) :
                        k \in 1..Len(scene.nodes[id].children)}

RECURSIVE LiftPos(_, _, _)
\* a point of the local space of node from, carried out of every node from
\* it up to top
LiftPos(from, top, pt) ==
    LET out == FromLocalSpace(scene.nodes[from].transform, pt)
    IN  IF from = top THEN out ELSE LiftPos(ParentOf(from), top, out)

RECURSIVE LiftNormal(_, _, _)
LiftNormal(from, top, normal) ==
    LET out == NormalFromLocalSpace(scene.nodes[from].transform, normal)
    IN  IF from = top THEN out ELSE LiftNormal(ParentOf(from), top, out)

\* the nodes under id, id included, whose own object the ray hits
SubtreeHits(id) == {k \in Subtree(id) : IsSome(OwnHit(k))}

\* what Node::intersect of id returns within the call of Scene::intersect
NodeReport(id) == Let(RayInto(id), LAMBDA ray : NodeIntersect(id, ray[1], ray[2]))

\* C8: for every node, at any depth: Node::intersect returns None iff
\* neither its own object nor the object of any descendant is hit by the
\* ray carried into that node's local space; otherwise it returns a hit
\* whose z is the minimum over its own object's hit and the reports of its
\* children, which is the minimum over all objects hit in its subtree; the
\* z and side are those the owning object's geometry computed, unchanged,
\* and pos and normal are that hit's, carried out of every node between.
C8_NodeIntersectIsSubtreeMinimum ==
    sphase = "intersected" =>
        \A id \in 1..Len(scene.nodes) :
            \A res \in {NodeReport(id)} :
            \A own \in {[k \in Subtree(id) |-> OwnHit(k)]} :
            \A reports \in {{NodeReport(scene.nodes[id].children[k]) :
                                k \in 1..Len(scene.nodes[id].children)}
                             \cup {IF IsSome(own[id])
                                   THEN Some([hit |-> own[id].v, node |-> id])
                                   ELSE None}} :
            \A hits \in {{k \in Subtree(id) : IsSome(own[k])}} :
                /\ (res = None) <=> (hits = {})
                /\ (res = None) <=> (reports = {None})
                /\ IsSome(res) =>
                    /\ \E r \in reports \ {None} :
                        /\ res.v.hit.z = r.v.hit.z
                        /\ res.v.node = r.v.node
                    /\ \A r \in reports \ {None} : Le(res.v.hit.z, r.v.hit.z)
                    /\ res.v.node \in hits
                    /\ res.v.hit.z = own[res.v.node].v.z
                    /\ res.v.hit.side = own[res.v.node].v.side
                    /\ res.v.hit.pos = LiftPos(res.v.node, id, own[res.v.node].v.pos)
                    /\ res.v.hit.normal = LiftNormal(res.v.node, id, own[res.v.node].v.normal)
                    /\ \A k \in hits : Le(res.v.hit.z, own[k].v.z)

\* a root whose grandchild owns the nearest hit, nearer than another hit in
\* the subtree, and reported with a pos that differs from the local one
C8_Witness ==
    /\ sphase = "intersected"
    /\ \E id \in 1..Len(scene.nodes) :
        /\ ParentOf(id) = 0
        /\ IsSome(NodeReport(id))
        /\ LET k == NodeReport(id).v.node
           IN  /\ ParentOf(k) # 0
               /\ ParentOf(ParentOf(k)) = id
               /\ \E j \in SubtreeHits(id) : Lt(OwnHit(k).v.z, OwnHit(j).v.z)
               /\ NodeReport(id).v.hit.pos # OwnHit(k).v.pos
               /\ NodeReport(id).v.hit.z = OwnHit(k).v.z
               /\ sceneRet = NodeReport(id)

\* the sum of intensity * color over the lights of the scene
RECURSIVE LightSum(_)
LightSum(k) ==
    IF k > Len(scene.lights) THEN <<0, 0, 0>>
    ELSE VAdd(VScale(scene.lights[k].intensity, scene.lights[k].color), LightSum(k + 1))

\* C9: Scene::cast returns the background texture sampled at (x, y, 0) when
\* Scene::intersect finds no hit for the ray; otherwise it returns the
\* shaded colour of the nearest hit (here, with a bounce budget of 0 and
\* ambient lights, the light sum times the diffuse colour of the material
\* of the node Scene::intersect returns), and then every other x, y gives
\* the same colour.
C9_CastIsBackgroundOnMiss ==
    sphase = "cast" =>
        LET found == SceneIntersect(rpos, rdir)
        IN  IF IsSome(found)
            THEN /\ castRet = MulElementWise(LightSum(1),
                                             scene.materials[scene.nodes[found.v.node].object.v.material].diffuse.color)
                 /\ \A xy \in PixelCoords : Cast(rpos, rdir, xy[1], xy[2], bounces) = castRet
            ELSE /\ castRet = TextureSample(scene.background, <<px, py, 0>>)
                 /\ castRet = IF \/ (UnitClampCoord(px - 1) < 2 /\ UnitClampCoord(py) < 2)
                                 \/ (UnitClampCoord(px - 1) > 2 /\ UnitClampCoord(py) > 2)
                              THEN <<0, 0, 0>> ELSE <<1, 1, 1>>

\* a ray that misses every object of a scene that has some, cast for a
\* pixel whose background colour another pixel does not share
C9_Witness ==
    /\ sphase = "cast"
    /\ Len(scene.roots) > 0
    /\ \E id \in 1..Len(scene.nodes) : IsSome(scene.nodes[id].object)
    /\ ~IsSome(SceneIntersect(rpos, rdir))
    /\ castRet = <<0, 0, 0>>
    /\ py # px
    /\ \E xy \in PixelCoords : Cast(rpos, rdir, xy[1], xy[2], bounces) # castRet

(***************************************************************************)
(* The recursion of Scene::cast: cast -> cast_distance -> shade ->         *)
(* cast_distance -> ...  (scene.rs)                                        *)
(*                                                                         *)
(* What a ray hits, and what the material it hits is like, depends on the  *)
(* scene and on the random numbers shade draws; every outcome is allowed   *)
(* here, so what holds of this recursion holds of it in every scene.       *)
(* shades is the chain of the calls of shade that have not returned.       *)
(***************************************************************************)
REFLECTION_RAYS == 4
REFRACTION_RAYS == 4
GI_RAYS == 16

\* a call of shade that has just been entered: its bounces argument, whether
\* the material's reflection or refraction sample is not zero, whether
\* refract_ray returns Some for its ray, where it stands, the rays issued
\* at the current stage (k), the calls of cast_distance it has made
EnterShade(b, mirror, refracts) ==
    [bounces |-> b, mirror |-> mirror, refracts |-> refracts,
     stage |-> "lights", k |-> 0, spawned |-> 0]

\* Scene::cast_distance(pos, dir, b): what it adds to the chain of calls,
\* nothing when Scene::intersect finds no hit, else the call shade(.., b)
CastDistanceCalls(b) ==
    {<<>>} \cup {<<EnterShade(b, mirror, refracts)>> : mirror \in BOOLEAN, refracts \in BOOLEAN}

\* a budget handed down unchanged
SameBounces(b) == b

\* the budget of the reflected and refracted rays: "bounces - 1"
LessBounces(b) == b - 1

\* the budget of the shaded hit handed on to the global illumination rays
GIBouncesKept(b) == b

\* the budget of the global illumination rays of a call shade(.., b): the
\* literal 0
GIBounces(b) == 0

Top == shades[Len(shades)]
SetTop(frame) == [shades EXCEPT ![Len(shades)] = frame]

\* Scene::cast(pos, dir, x, y, budget) calls cast_distance(pos, dir, budget)
CastCall ==
    /\ cphase = "ready"
    /\ \E new \in CastDistanceCalls(budget) :
        /\ shades' = new
        /\ cphase' = IF new = <<>> THEN "returned" ELSE "running"
    /\ UNCHANGED budget

\* the samples and the loop over the lights: shadow rays call
\* Scene::intersect only, so the chain of calls is as it was
ShadeLights ==
    /\ cphase = "running"
    /\ Top.stage = "lights"
    /\ shades' = SetTop([Top EXCEPT !.stage = IF Top.bounces > 0 THEN "gi" ELSE "done"])
    /\ UNCHANGED <<budget, cphase>>

\* one ray of "for ray in rays" under "if bounces > 0"
GIRay ==
    /\ cphase = "running"
    /\ Top.stage = "gi"
    /\ Top.k < GI_RAYS
    /\ \E new \in CastDistanceCalls(GIBounces(Top.bounces)) :
        shades' = SetTop([Top EXCEPT !.k = @ + 1, !.spawned = @ + 1]) \o new
    /\ UNCHANGED <<budget, cphase>>

\* the end of the loop over the rays, and the test before the reflection
GIEnd ==
    /\ cphase = "running"
    /\ Top.stage = "gi"
    /\ Top.k = GI_RAYS
    /\ shades' = SetTop([Top EXCEPT !.k = 0,
                                    !.stage = IF Top.mirror /\ Top.bounces > 0
                                              THEN "reflect" ELSE "done"])
    /\ UNCHANGED <<budget, cphase>>

\* one iteration of (0..REFLECTION_RAYS).map(..)
ReflectRay ==
    /\ cphase = "running"
    /\ Top.stage = "reflect"
    /\ Top.k < REFLECTION_RAYS
    /\ \E new \in CastDistanceCalls(LessBounces(Top.bounces)) :
        shades' = SetTop([Top EXCEPT !.k = @ + 1, !.spawned = @ + 1]) \o new
    /\ UNCHANGED <<budget, cphase>>

ReflectEnd ==
    /\ cphase = "running"
    /\ Top.stage = "reflect"
    /\ Top.k = REFLECTION_RAYS
    /\ shades' = SetTop([Top EXCEPT !.k = 0, !.stage = "refract"])
    /\ UNCHANGED <<budget, cphase>>

\* one iteration of (0..REFRACTION_RAYS).map(..): no call of cast_distance
\* when refract_ray returns None
RefractRay ==
    /\ cphase = "running"
    /\ Top.stage = "refract"
    /\ Top.k < REFRACTION_RAYS
    /\ IF Top.refracts
       THEN \E new \in CastDistanceCalls(LessBounces(Top.bounces)) :
                shades' = SetTop([Top EXCEPT !.k = @ + 1, !.spawned = @ + 1]) \o new
       ELSE shades' = SetTop([Top EXCEPT !.k = @ + 1])
    /\ UNCHANGED <<budget, cphase>>

RefractEnd ==
    /\ cphase = "running"
    /\ Top.stage = "refract"
    /\ Top.k = REFRACTION_RAYS
    /\ shades' = SetTop([Top EXCEPT !.k = 0, !.stage = "done"])
    /\ UNCHANGED <<budget, cphase>>

\* shade returns its colour; the outermost one returns it to cast
ShadeReturn ==
    /\ cphase = "running"
    /\ Top.stage = "done"
    /\ shades' = SubSeq(shades, 1, Len(shades) - 1)
    /\ cphase' = IF Len(shades) = 1 THEN "returned" ELSE "running"
    /\ UNCHANGED budget

InitShade ==
    /\ budget \in 0..MaxBounces
    /\ shades = <<>>
    /\ cphase = "ready"
    /\ IdleBVH /\ IdleBox /\ IdleScene /\ IdleShadow /\ IdleSphere /\ IdleMesh /\ IdleRender /\ IdlePrepare /\ IdleReflect

NextShade ==
    \/ CastCall /\ UNCHANGED <<bvhVars, boxVars, sceneVars, shadowVars, sphereVars, meshVars, renderVars, prepareVars, reflectVars>>
    \/ ShadeLights /\ UNCHANGED <<bvhVars, boxVars, sceneVars, shadowVars, sphereVars, meshVars, renderVars, prepareVars, reflectVars>>
    \/ GIRay /\ UNCHANGED <<bvhVars, boxVars, sceneVars, shadowVars, sphereVars, meshVars, renderVars, prepareVars, reflectVars>>
    \/ GIEnd /\ UNCHANGED <<bvhVars, boxVars, sceneVars, shadowVars, sphereVars, meshVars, renderVars, prepareVars, reflectVars>>
    \/ ReflectRay /\ UNCHANGED <<bvhVars, boxVars, sceneVars, shadowVars, sphereVars, meshVars, renderVars, prepareVars, reflectVars>>
    \/ ReflectEnd /\ UNCHANGED <<bvhVars, boxVars, sceneVars, shadowVars, sphereVars, meshVars, renderVars, prepareVars, reflectVars>>
    \/ RefractRay /\ UNCHANGED <<bvhVars, boxVars, sceneVars, shadowVars, sphereVars, meshVars, renderVars, prepareVars, reflectVars>>
    \/ RefractEnd /\ UNCHANGED <<bvhVars, boxVars, sceneVars, shadowVars, sphereVars, meshVars, renderVars, prepareVars, reflectVars>>
    \/ ShadeReturn /\ UNCHANGED <<bvhVars, boxVars, sceneVars, shadowVars, sphereVars, meshVars, renderVars, prepareVars, reflectVars>>

SpecShade == InitShade /\ [][NextShade]_vars

\* an upper bound on the steps a call of shade with budget b takes, itself
\* and all the calls under it
RECURSIVE Work(_)
Work(b) ==
    IF b <= 0 THEN 2
    ELSE 2 + GI_RAYS * (1 + Work(0)) + 1
           + REFLECTION_RAYS * (1 + Work(b - 1)) + 1
           + REFRACTION_RAYS * (1 + Work(b - 1)) + 1

\* an upper bound on the steps left to a call of shade where it stands
WorkLeft(f) ==
    IF f.stage = "lights" THEN Work(f.bounces)
    ELSE IF f.stage = "gi"
    THEN (GI_RAYS - f.k) * (1 + Work(0)) + 1
         + REFLECTION_RAYS * (1 + Work(f.bounces - 1)) + 1
         + REFRACTION_RAYS * (1 + Work(f.bounces - 1)) + 1 + 1
    ELSE IF f.stage = "reflect"
    THEN (REFLECTION_RAYS - f.k) * (1 + Work(f.bounces - 1)) + 1
         + REFRACTION_RAYS * (1 + Work(f.bounces - 1)) + 1 + 1
    ELSE IF f.stage = "refract"
    THEN (REFRACTION_RAYS - f.k) * (1 + Work(f.bounces - 1)) + 1 + 1
    ELSE 1

RECURSIVE SumWorkLeft(_)
SumWorkLeft(k) == IF k > Len(shades) THEN 0 ELSE WorkLeft(shades[k]) + SumWorkLeft(k + 1)

\* an upper bound on the steps left to the call of Scene::cast
StepsLeft == IF cphase = "ready" THEN 1 + Work(budget) ELSE SumWorkLeft(1)

\* C10: for every initial bounce budget b >= 0 and whatever the rays hit,
\* the recursion started by Scene::cast terminates (every step lowers a
\* bound on the steps left, which is 0 exactly when cast has returned);
\* the calls of shade in progress have strictly decreasing budgets between
\* 0 and b, so they are at most b + 1 deep; a call of shade makes at most
\* GI_RAYS + REFLECTION_RAYS + REFRACTION_RAYS calls of cast_distance, and
\* none when its bounces is 0; the loop over the lights, shadow rays
\* included, adds no call of shade.
C10_ShadeRecursionIsBounded ==
    /\ [](cphase \in {"ready", "running", "returned"} =>
            /\ Len(shades) <= budget + 1
            /\ \A i \in 1..Len(shades) :
                /\ shades[i].bounces >= 0
                /\ shades[i].bounces <= budget
                /\ \A j \in 1..Len(shades) : i < j => shades[i].bounces > shades[j].bounces
                /\ shades[i].spawned <= GI_RAYS + REFLECTION_RAYS + REFRACTION_RAYS
                /\ shades[i].bounces = 0 => shades[i].spawned = 0
            /\ StepsLeft >= 0
            /\ (StepsLeft = 0) <=> (cphase = "returned")
            /\ (cphase = "running") <=> (shades # <<>>))
    /\ [][(cphase = "ready" \/ cphase = "running") =>
            (/\ StepsLeft' < StepsLeft
             /\ (cphase = "running" /\ Top.stage = "lights") => Len(shades') = Len(shades))]_vars

\* a cast with a budget of at least 2, budget + 1 calls of shade deep, the
\* innermost with bounces 0, under an outermost call that has just made its
\* last allowed call of cast_distance
C10_Witness ==
    /\ cphase = "running"
    /\ budget >= 2
    /\ Len(shades) = budget + 1
    /\ shades[1].spawned = GI_RAYS + REFLECTION_RAYS + REFRACTION_RAYS
    /\ shades[Len(shades)].bounces = 0
    /\ shades[Len(shades)].stage = "done"

\* the calls of shade in progress that were made for a global illumination
\* ray: those right under a call that stands in its loop over the GI rays
GICalls == {i \in 2..Len(shades) : shades[i - 1].stage = "gi"}

\* C11 as stated: each GI ray is traced with the same bounce budget as the
\* hit being shaded.
C11_GIKeepsBudget ==
    \A i \in GICalls : shades[i].bounces = shades[i - 1].bounces

\* C11, amended: with bounces > 0, each GI ray is traced with a bounce
\* budget of 0, whatever the budget of the hit being shaded, so the hit it
\* finds is shaded without further GI, reflection or refraction; only
\* reflected and refracted rays carry bounces - 1.
C11_GIBudgetIsZero ==
    /\ [](\A i \in 2..Len(shades) :
            /\ shades[i - 1].bounces > 0
            /\ i \in GICalls => shades[i].bounces = 0
            /\ i \notin GICalls => shades[i].bounces = shades[i - 1].bounces - 1)
    /\ [][(cphase = "running" /\ Top.stage = "gi" /\ Len(shades') > Len(shades)) =>
            (/\ shades'[Len(shades')].bounces = 0
             /\ shades'[Len(shades')].stage = "lights"
             /\ shades'[Len(shades)].k = Top.k + 1)]_vars

\* a hit shaded with a budget of 2 whose GI ray hit something, shaded with
\* a budget of 0 and returning without having cast a ray
C11_Witness ==
    /\ cphase = "running"
    /\ Len(shades) = 2
    /\ shades[1].stage = "gi" /\ shades[1].bounces = 2
    /\ shades[2].bounces = 0 /\ shades[2].stage = "done" /\ shades[2].spawned = 0

(***************************************************************************)
(* Scene::cast in scenes lit by a Directional light                        *)
(***************************************************************************)
DirectionalLight(intensity, color, direction) ==
    [intensity |-> intensity, color |-> color,
     light_type |-> [kind |-> "Directional", direction |-> direction]]

\* an ambient light and a light that shines straight down
LightsDirectional ==
    <<AmbientLight(1, <<1, 1, 1>>), DirectionalLight(3, <<1, 1, 1>>, <<0, 0, -1>>)>>

LitScenes == {[sc EXCEPT !.lights = LightsDirectional] : sc \in Scenes}

InitLight ==
    /\ scene \in LitScenes
    /\ \E ray \in SceneRays : rpos = ray[1] /\ rdir = ray[2]
    /\ px = 0 /\ py = 0 /\ bounces = 0
    /\ sphase = "ready" /\ sceneRet = None /\ castRet = <<0, 0, 0>>
    /\ IdleBVH /\ IdleBox /\ IdleShade /\ IdleShadow /\ IdleSphere /\ IdleMesh /\ IdleRender /\ IdlePrepare /\ IdleReflect

NextLight == CallCast /\ UNCHANGED <<bvhVars, boxVars, shadeVars, shadowVars, sphereVars, meshVars, renderVars, prepareVars, reflectVars>>

SpecLight == InitLight /\ [][NextLight]_vars

\* the point a hit reports, whose coordinates are whole numbers in the
\* scenes of the model
HitPoint(hit) == <<hit.pos.v[1] \div hit.pos.d, hit.pos.v[2] \div hit.pos.d,
                   hit.pos.v[3] \div hit.pos.d>>

\* whether the shadow ray from the hit towards a light in direction l meets
\* an object.  With whole coordinates and l along an axis every distance
\* along the ray from the hit point is whole, so the ray from
\* pos + BIAS * l meets what the ray from pos meets at a distance of at
\* least 1, which is all it meets at a positive distance.
Shadowed(hit, l) == IsSome(SceneIntersect(HitPoint(hit), l))

\* the sum of intensity * color over the Ambient lights of the scene
RECURSIVE AmbientSum(_)
AmbientSum(k) ==
    IF k > Len(scene.lights) THEN <<0, 0, 0>>
    ELSE IF scene.lights[k].light_type.kind = "Ambient"
    THEN VAdd(VScale(scene.lights[k].intensity, scene.lights[k].color), AmbientSum(k + 1))
    ELSE AmbientSum(k + 1)

\* C12: a Directional light adds to the diffuse and specular accumulators
\* of Scene::shade only if the hit point is unshadowed: when the shadow ray
\* towards each Directional light meets an object, the colour of the hit is
\* what the Ambient lights alone give.
C12_DirectionalLightIsShadowed ==
    sphase = "cast" =>
        \A found \in {SceneIntersect(rpos, rdir)} :
            (/\ IsSome(found)
             /\ \A k \in 1..Len(scene.lights) :
                    scene.lights[k].light_type.kind = "Directional" =>
                        Shadowed(found.v.hit,
                                 Normalize(VScale(-1, scene.lights[k].light_type.direction))))
            => castRet = MulElementWise(AmbientSum(1),
                                        scene.materials[scene.nodes[found.v.node].object.v.material].diffuse.color)

\* ---------------------------------------------------------------------
\* The shadow factor of a Point light (scene.rs, Scene::shade, the
\* LightType::Point arm)
\* ---------------------------------------------------------------------

SHADOW_RAYS == 4

\* What one shadow ray meets: self.intersect(...) is None or Some hit whose
\* z is the distance along the ray from hit_info.pos + BIAS * ray, and
\* (offset_position - hit_info.pos).magnitude() is the distance from the
\* hit point to the sampled light position.  The random offset of the
\* light position decides both, so both are drawn per sample.
Distances == 1..MaxDist
BlockingHits == {None} \cup {Some(z) : z \in Distances}

SampleVisibilityAtLeast(found, dist) ==
    IF IsSome(found) THEN (IF found.v >= dist THEN 1 ELSE 0) ELSE 1

\* the value of one sample: the match on self.intersect(...)
SampleVisibility(found, dist) ==
    IF IsSome(found) THEN (IF found.v > dist THEN 1 ELSE 0) ELSE 1

\* .sum::<f32>() over the samples
RECURSIVE SumVisible(_)
SumVisible(samples) ==
    IF samples = <<>> THEN 0 ELSE Head(samples).visible + SumVisible(Tail(samples))

\* one iteration of (0..SHADOW_RAYS).map(|_| ...)
ShadowRay ==
    /\ shadowRet = None
    /\ Len(shadowSamples) < SHADOW_RAYS
    /\ \E found \in BlockingHits, dist \in Distances :
           shadowSamples' = Append(shadowSamples,
                                   [found |-> found, dist |-> dist,
                                    visible |-> SampleVisibility(found, dist)])
    /\ UNCHANGED shadowRet

\* shadow = (...).sum::<f32>() / SHADOW_RAYS as f32
ShadowAverage ==
    /\ shadowRet = None
    /\ Len(shadowSamples) = SHADOW_RAYS
    /\ shadowRet' = Some(Div(SumVisible(shadowSamples), SHADOW_RAYS))
    /\ UNCHANGED shadowSamples

InitShadow ==
    /\ shadowSamples = <<>>
    /\ shadowRet = None
    /\ IdleBVH /\ IdleBox /\ IdleScene /\ IdleShade /\ IdleSphere /\ IdleMesh /\ IdleRender /\ IdlePrepare /\ IdleReflect

NextShadow ==
    \/ ShadowRay /\ UNCHANGED <<bvhVars, boxVars, sceneVars, shadeVars, sphereVars, meshVars, renderVars, prepareVars, reflectVars>>
    \/ ShadowAverage /\ UNCHANGED <<bvhVars, boxVars, sceneVars, shadeVars, sphereVars, meshVars, renderVars, prepareVars, reflectVars>>

SpecShadow == InitShadow /\ [][NextShadow]_vars

\* C13 as stated: a sample counts as occluded iff the shadow ray meets an
\* object at a distance less than the distance to the sampled light
\* position.
C13_OccludedIffNearer ==
    \A i \in 1..Len(shadowSamples) :
        shadowSamples[i].visible = 0 <=>
            (IsSome(shadowSamples[i].found) /\ shadowSamples[i].found.v < shadowSamples[i].dist)

\* the number of samples of the sequence that count as occluded because
\* the ray meets an object no farther than the sampled light position
RECURSIVE Occluded(_)
Occluded(samples) ==
    IF samples = <<>> THEN 0
    ELSE (IF IsSome(Head(samples).found) /\ Head(samples).found.v <= Head(samples).dist
          THEN 1 ELSE 0) + Occluded(Tail(samples))

\* C13: the shadow factor of a Point light is the average over SHADOW_RAYS
\* samples of a 0/1 visibility value, so it lies in [0,1] and is a multiple
\* of 1/SHADOW_RAYS; a sample counts as occluded iff the shadow ray meets
\* an object at a distance not greater than the distance from the hit
\* point to the sampled light position, and as visible when it meets
\* nothing.
C13_ShadowFactorIsAverage ==
    /\ \A i \in 1..Len(shadowSamples) :
           /\ shadowSamples[i].visible \in {0, 1}
           /\ shadowSamples[i].visible = 0 <=>
                  (/\ IsSome(shadowSamples[i].found)
                   /\ shadowSamples[i].found.v <= shadowSamples[i].dist)
           /\ shadowSamples[i].found = None => shadowSamples[i].visible = 1
    /\ IsSome(shadowRet) =>
           /\ Len(shadowSamples) = SHADOW_RAYS
           /\ Le(Div(0, 1), shadowRet.v) /\ Le(shadowRet.v, Div(1, 1))
           /\ \E m \in 0..SHADOW_RAYS :
                  /\ Eq(shadowRet.v, Div(m, SHADOW_RAYS))
                  /\ m = SHADOW_RAYS - Occluded(shadowSamples)

C13_Witness ==
    /\ IsSome(shadowRet)
    /\ Eq(shadowRet.v, Div(1, 2))
    /\ \E i, j \in 1..SHADOW_RAYS :
           /\ IsSome(shadowSamples[i].found)
           /\ shadowSamples[i].found.v = shadowSamples[i].dist
           /\ shadowSamples[i].visible = 0
           /\ shadowSamples[j].found = None

\* ---------------------------------------------------------------------
\* Geometry::Sphere (geometry.rs, Geometry::intersect)
\* ---------------------------------------------------------------------

\* f32 arithmetic on exact rationals
RECURSIVE GCD(_, _)
GCD(a, b) == IF b = 0 THEN a ELSE GCD(b, a % b)
Abs(i) == IF i < 0 THEN -i ELSE i

\* n / d in lowest terms, d # 0
Ratio(n, d) == Div(n \div GCD(Abs(n), Abs(d)), d \div GCD(Abs(n), Abs(d)))

Rat(i) == Div(i, 1)
RAdd(a, b) == Ratio(a.n * b.d + b.n * a.d, a.d * b.d)
RSub(a, b) == Ratio(a.n * b.d - b.n * a.d, a.d * b.d)
RMul(a, b) == Ratio(a.n * b.n, a.d * b.d)
RDiv(a, b) == Ratio(a.n * b.d, a.d * b.n)
SignR(a) == IF Lt(a, Zero) THEN -1 ELSE IF Lt(Zero, a) THEN 1 ELSE 0

\* An f32 value that involves discriminant.sqrt(): r + c * sqrt(D), with
\* r, c and D exact rationals and D > 0.
Surd(r, c, D) == [r |-> r, c |-> c, D |-> D]
SurdAdd(x, y) == Surd(RAdd(x.r, y.r), RAdd(x.c, y.c), x.D)
SurdSub(x, y) == Surd(RSub(x.r, y.r), RSub(x.c, y.c), x.D)
SurdScale(k, x) == Surd(RMul(k, x.r), RMul(k, x.c), x.D)
SurdMul(x, y) ==
    Surd(RAdd(RMul(x.r, y.r), RMul(RMul(x.c, y.c), x.D)),
         RAdd(RMul(x.r, y.c), RMul(x.c, y.r)), x.D)

\* the sign of r + c * sqrt(D): when r and c disagree in sign the squares
\* r * r and c * c * D decide
SurdSign(x) ==
    LET sr == SignR(x.r)
        sc == SignR(x.c)
        r2 == RMul(x.r, x.r)
        c2D == RMul(RMul(x.c, x.c), x.D)
    IN  IF sc = 0 THEN sr
        ELSE IF sr = 0 \/ sr = sc THEN sc
        ELSE IF Lt(r2, c2D) THEN sc
        ELSE IF Lt(c2D, r2) THEN sr
        ELSE 0

SurdPositive(x) == SurdSign(x) > 0
SurdLt(x, y) == SurdSign(SurdSub(x, y)) < 0

\* f32::min and f32::max on such values
SurdMin(x, y) == IF SurdLt(y, x) THEN y ELSE x
SurdMax(x, y) == IF SurdLt(x, y) THEN y ELSE x

\* The coordinates of a ray origin are whole multiples of 1 / PosDen, so
\* that origins inside, on and outside the unit sphere are drawn.
PosDen == 2
SpherePosCoords == {-3, -1, 0, 1, 2}

\* pos as a vector of rationals, from its numerators
SpherePos(v) == <<Ratio(v[1], PosDen), Ratio(v[2], PosDen), Ratio(v[3], PosDen)>>

RDot(a, b) == RAdd(RAdd(RMul(a[1], b[1]), RMul(a[2], b[2])), RMul(a[3], b[3]))

\* self.bounding_box().intersect(pos, dir).is_none() for the box of the
\* Sphere, BoundingBox::new(-1.0, -1.0, -1.0, 1.0, 1.0, 1.0), at
\* pos = v / PosDen: every comparison and every quotient of
\* BoundingBox::intersect has both sides multiplied by PosDen.
SphereBoxMissed(v, direction) ==
    ~IsSome(Intersect(BoundingBox(<<-PosDen, -PosDen, -PosDen>>, <<PosDen, PosDen, PosDen>>),
                      v, VScale(PosDen, direction)))

\* "t = t1.max(t2)" where the code has t1.min(t2)
FrontRootFarther(t1, t2) == SurdMax(t1, t2)

\* "t = t1.min(t2)"
FrontRoot(t1, t2) == SurdMin(t1, t2)

\* the Sphere arm once discriminant > 0 and the two roots are known
SphereHit(p, direction, t1, t2) ==
    IF SurdPositive(t1) \/ SurdPositive(t2)
    THEN LET front == SurdPositive(t1) /\ SurdPositive(t2)
             t == IF front THEN FrontRoot(t1, t2) ELSE SurdMax(t1, t2)
             hit_pos == <<SurdAdd(Surd(p[1], Zero, t.D), SurdScale(Rat(direction[1]), t)),
                          SurdAdd(Surd(p[2], Zero, t.D), SurdScale(Rat(direction[2]), t)),
                          SurdAdd(Surd(p[3], Zero, t.D), SurdScale(Rat(direction[3]), t))>>
         IN  \* hit_pos.normalize() is hit_pos: its magnitude is 1
             Some([z |-> t, pos |-> hit_pos, normal |-> hit_pos,
                   side |-> IF front THEN "Front" ELSE "Back"])
    ELSE None

\* "let discriminant = 4.0 * (pos_dot_dir * pos_dot_dir)
\*                     - 4.0 * dir_len_sqr * (pos.magnitude2() - 1.0);"
Discriminant(p, direction) ==
    RSub(RMul(Rat(4), RMul(RDot(p, SpherePos(VScale(PosDen, direction))),
                           RDot(p, SpherePos(VScale(PosDen, direction))))),
         RMul(RMul(Rat(4), Rat(Dot(direction, direction))),
              RSub(RDot(p, p), Rat(1))))

\* Geometry::intersect(&self, pos, dir) for Geometry::Sphere, pos = v / PosDen
SphereIntersect(v, direction) ==
    IF SphereBoxMissed(v, direction) THEN None
    ELSE LET p == SpherePos(v)
             pos_dot_dir == RDot(p, SpherePos(VScale(PosDen, direction)))
             dir_len_sqr == Rat(Dot(direction, direction))
             discriminant == Discriminant(p, direction)
         IN  IF Lt(Zero, discriminant)
             THEN SphereHit(p, direction,
                            Surd(RDiv(RMul(Rat(-2), pos_dot_dir), RMul(Rat(2), dir_len_sqr)),
                                 RDiv(Rat(1), RMul(Rat(2), dir_len_sqr)), discriminant),
                            Surd(RDiv(RMul(Rat(-2), pos_dot_dir), RMul(Rat(2), dir_len_sqr)),
                                 RDiv(Rat(-1), RMul(Rat(2), dir_len_sqr)), discriminant))
             ELSE None

CallSphere ==
    /\ ~gcalled
    /\ gcalled' = TRUE
    /\ gres' = SphereIntersect(gpos, gdir)
    /\ UNCHANGED <<gpos, gdir>>

InitSphere ==
    /\ gpos \in SpherePosCoords \X SpherePosCoords \X SpherePosCoords
    /\ gdir \in DirCoords \X DirCoords \X DirCoords
    /\ gcalled = FALSE /\ gres = None
    /\ IdleBVH /\ IdleBox /\ IdleScene /\ IdleShade /\ IdleShadow /\ IdleMesh /\ IdleRender /\ IdlePrepare /\ IdleReflect

NextSphere == CallSphere /\ UNCHANGED <<bvhVars, boxVars, sceneVars, shadeVars, shadowVars, meshVars, renderVars, prepareVars, reflectVars>>

SpecSphere == InitSphere /\ [][NextSphere]_vars

\* |pos|^2 - 1 in units of 1 / PosDen^2: negative inside the unit sphere,
\* zero on it, positive outside
Outside(v) == Dot(v, v) - PosDen * PosDen

\* the point pos + z * dir of the hit lies on the unit sphere
OnUnitSphere(hit) ==
    SurdSign(SurdSub(SurdAdd(SurdAdd(SurdMul(hit.pos[1], hit.pos[1]),
                                     SurdMul(hit.pos[2], hit.pos[2])),
                             SurdMul(hit.pos[3], hit.pos[3])),
                     Surd(Rat(1), Zero, hit.z.D))) = 0

\* z is the parameter of hit.pos along the ray
AlongRay(hit, v, direction) ==
    \A a \in Axes :
        SurdSign(SurdSub(hit.pos[a],
                         SurdAdd(Surd(Div(v[a], PosDen), Zero, hit.z.D),
                                 SurdScale(Rat(direction[a]), hit.z)))) = 0

\* z against the parameter -(pos . dir) / |dir|^2 of the point of the ray
\* nearest the centre, which lies midway between the two roots: -1 when z
\* is the smaller root, 1 when it is the larger
RootSide(hit, v, direction) ==
    SurdSign(SurdSub(SurdScale(Rat(PosDen * Dot(direction, direction)), hit.z),
                     Surd(Rat(-Dot(v, direction)), Zero, hit.z.D)))

\* the ray is aimed at the centre of the sphere
AimedAtCentre(v, direction) ==
    /\ Dot(v, direction) < 0
    /\ v[1] * direction[2] = v[2] * direction[1]
    /\ v[2] * direction[3] = v[3] * direction[2]
    /\ v[1] * direction[3] = v[3] * direction[1]

\* C14: Sphere intersection.  The roots of |pos + t * dir|^2 = 1 are real
\* and distinct iff the discriminant is positive; their product has the
\* sign of |pos|^2 - 1 and their sum the sign of -(pos . dir).  With
\* discriminant <= 0 there is no hit; with both roots positive (origin
\* outside, moving towards the sphere) the hit is at the smaller root with
\* Side::Front; with roots of mixed sign (origin inside) the hit is at the
\* positive root with Side::Back; with both roots non-positive there is no
\* hit.  So a ray from outside aimed at the centre reports Front and a ray
\* from inside reports Back.
C14_SphereIntersection ==
    gcalled =>
        /\ ~Lt(Zero, Discriminant(SpherePos(gpos), gdir)) => gres = None
        /\ (/\ Lt(Zero, Discriminant(SpherePos(gpos), gdir))
            /\ Outside(gpos) > 0 /\ Dot(gpos, gdir) < 0)
           => (/\ IsSome(gres)
               /\ gres.v.side = "Front"
               /\ SurdPositive(gres.v.z)
               /\ AlongRay(gres.v, gpos, gdir)
               /\ OnUnitSphere(gres.v)
               /\ RootSide(gres.v, gpos, gdir) = -1)
        /\ (Outside(gpos) < 0 /\ gdir # <<0, 0, 0>>)
           => (/\ IsSome(gres)
               /\ gres.v.side = "Back"
               /\ SurdPositive(gres.v.z)
               /\ AlongRay(gres.v, gpos, gdir)
               /\ OnUnitSphere(gres.v))
        /\ (Outside(gpos) >= 0 /\ Dot(gpos, gdir) >= 0) => gres = None
        /\ (Outside(gpos) > 0 /\ AimedAtCentre(gpos, gdir))
           => (IsSome(gres) /\ gres.v.side = "Front")

C14_Witness ==
    /\ gcalled
    /\ gpos = <<-3, 0, 0>> /\ gdir = <<1, 0, 0>>
    /\ IsSome(gres) /\ gres.v.side = "Front"
    /\ SurdSign(SurdSub(gres.v.z, Surd(Div(1, 2), Zero, gres.v.z.D))) = 0

\* ---------------------------------------------------------------------
\* Mesh (geometry.rs): Mesh::build_bvh, Mesh::intersect and
\* Mesh::intersect_triangle, over the BVH of bvh.rs
\* ---------------------------------------------------------------------

\* The vertices and normals of the meshes, 0-based as in the code.
MeshVertices == <<<<-1, -1, 0>>, <<2, -1, 0>>, <<-1, 2, 0>>,
                  <<0, 0, 1>>, <<3, 0, 1>>, <<0, 3, 1>>>>
MeshNormals == <<<<0, 0, 1>>, <<1, 0, 0>>, <<0, 1, 0>>,
                 <<0, 0, 1>>, <<0, 0, 1>>, <<0, 1, 1>>>>

\* The faces a mesh is made of: one in the plane z = 0, the same with the
\* opposite winding, one in the plane z = 1 and a slanted one.
Faces == {<<0, 1, 2>>, <<0, 2, 1>>, <<3, 4, 5>>, <<0, 1, 5>>}

\* Mesh { vertices, triangles, normals, normal_triangles, .. } as
\* load_obj fills them (every corner with its own normal index)
Meshes ==
    {[vertices |-> MeshVertices, triangles |-> ts,
      normals |-> MeshNormals, normal_triangles |-> ts] :
        ts \in UNION {[1..k -> Faces] : k \in 1..MaxItems}}

\* load_obj: the box over all the vertices
RECURSIVE VertexBox(_, _, _)
VertexBox(acc, vs, k) ==
    IF k > Len(vs) THEN acc
    ELSE VertexBox(BoundingBox(<<IMin(acc.p1[1], vs[k][1]), IMin(acc.p1[2], vs[k][2]),
                                 IMin(acc.p1[3], vs[k][3])>>,
                               <<IMax(acc.p2[1], vs[k][1]), IMax(acc.p2[2], vs[k][2]),
                                 IMax(acc.p2[3], vs[k][3])>>), vs, k + 1)

\* Mesh::build_bvh: the box of a triangle
TriangleBox(m, triangle) ==
    Union(Union(BoundingBox(m.vertices[triangle[1] + 1], m.vertices[triangle[1] + 1]),
                BoundingBox(m.vertices[triangle[2] + 1], m.vertices[triangle[2] + 1])),
          BoundingBox(m.vertices[triangle[3] + 1], m.vertices[triangle[3] + 1]))

\* Mesh::build_bvh: the boxes handed to BVH::build
TriangleBoxes(m) == [k \in 1..Len(m.triangles) |-> TriangleBox(m, m.triangles[k])]

Cross(u, w) == <<u[2] * w[3] - u[3] * w[2],
                 u[3] * w[1] - u[1] * w[3],
                 u[1] * w[2] - u[2] * w[1]>>

ROne == Rat(1)

\* Mesh::intersect_triangle(a, b, c, pos, dir) -> Option<(t, u, v, side)>.
\* The coordinates are whole, so det is whole and det.abs() < EPSILON
\* (EPSILON = 1.0e-8) is det = 0.
IntersectTriangle(a, b, c, p, d) ==
    LET ab == VSub(b, a)
        ac == VSub(c, a)
        pvec == Cross(d, ac)
        det == Dot(ab, pvec)
        tvec == VSub(p, a)
        qvec == Cross(tvec, ab)
    IN  IF det = 0 THEN None
        ELSE IF Lt(Ratio(Dot(tvec, pvec), det), Zero) \/ Lt(ROne, Ratio(Dot(tvec, pvec), det))
        THEN None
        ELSE IF \/ Lt(Ratio(Dot(d, qvec), det), Zero)
                \/ Lt(ROne, RAdd(Ratio(Dot(tvec, pvec), det), Ratio(Dot(d, qvec), det)))
        THEN None
        ELSE IF Lt(Ratio(Dot(ac, qvec), det), Zero) THEN None
        ELSE Some([t |-> Ratio(Dot(ac, qvec), det),
                   u |-> Ratio(Dot(tvec, pvec), det),
                   v |-> Ratio(Dot(d, qvec), det),
                   side |-> IF det > 0 THEN "Front" ELSE "Back"])

\* (1.0 - u - v) * x + u * y + v * z on vectors
Barycentric(u, v, x, y, z) ==
    <<RAdd(RAdd(RMul(RSub(RSub(ROne, u), v), Rat(x[1])), RMul(u, Rat(y[1]))), RMul(v, Rat(z[1]))),
      RAdd(RAdd(RMul(RSub(RSub(ROne, u), v), Rat(x[2])), RMul(u, Rat(y[2]))), RMul(v, Rat(z[2]))),
      RAdd(RAdd(RMul(RSub(RSub(ROne, u), v), Rat(x[3])), RMul(u, Rat(y[3]))), RMul(v, Rat(z[3])))>>

\* Mesh::get_point(&self, face, u, v)
GetPoint(m, face, u, v) ==
    Barycentric(u, v, m.vertices[m.triangles[face + 1][1] + 1],
                      m.vertices[m.triangles[face + 1][2] + 1],
                      m.vertices[m.triangles[face + 1][3] + 1])

\* Mesh::get_normal(&self, face, u, v)
GetNormal(m, face, u, v) ==
    Barycentric(u, v, m.normals[m.normal_triangles[face + 1][1] + 1],
                      m.normals[m.normal_triangles[face + 1][2] + 1],
                      m.normals[m.normal_triangles[face + 1][3] + 1])

\* intersect_triangle on the face i of the mesh
FaceHit(m, i, p, d) ==
    IntersectTriangle(m.vertices[m.triangles[i + 1][1] + 1],
                      m.vertices[m.triangles[i + 1][2] + 1],
                      m.vertices[m.triangles[i + 1][3] + 1], p, d)

\* "nearest_hit_info.z > t" where the code has <
SkipsNearer(z, t) == Lt(t, z)

\* "if nearest_hit_info.z < t { continue; }"
Skips(z, t) == Lt(z, t)

\* the body of the loop of Mesh::intersect for the candidate i: the value
\* of nearest after it
MeshLoopBody(m, near, i, p, d) ==
    Let(FaceHit(m, i, p, d), LAMBDA hit :
        IF IsSome(hit)
        THEN IF IsSome(near) /\ Skips(near.v.z, hit.v.t)
             THEN near
             ELSE Some([z |-> hit.v.t,
                        pos |-> GetPoint(m, i, hit.v.u, hit.v.v),
                        normal |-> GetNormal(m, i, hit.v.u, hit.v.v),
                        side |-> hit.v.side])
        ELSE near)

\* the rays Mesh::intersect is called with
MeshRays == {<<<<-1, -1, -1>>, <<1, 1, 1>>>>, <<<<2, 0, -1>>, <<-1, 0, 2>>>>,
             <<<<1, 1, 1>>, <<0, 0, 1>>>>, <<<<0, 2, 3>>, <<1, 0, 0>>>>,
             <<<<2, 0, -1>>, <<0, 0, 1>>>>}

\* nearest left as the previous call of Mesh::intersect returned it
StaleNearest == mnearest

\* "let mut nearest: Option<HitInfo> = None;"
FreshNearest == None

\* Mesh::intersect up to the first call of next(): nearest = None and
\* self.bvh.traverse(pos, dir)
MeshIntersectCall ==
    /\ Len(mruns) < MaxRuns
    /\ Traverse
    /\ <<pos', dir'>> \in MeshRays
    /\ mnearest' = FreshNearest
    /\ UNCHANGED <<mesh, mruns>>

\* one turn of "for i in self.bvh.traverse(pos, dir) { ... }": next() and,
\* if it returned an index, the body of the loop
MeshIntersectNext ==
    /\ phase = "traversing"
    /\ IterNext
    /\ mnearest' = IF IsSome(NextLoop(stack, pos, dir).ret)
                  THEN MeshLoopBody(mesh, mnearest, NextLoop(stack, pos, dir).ret.v, pos, dir)
                  ELSE mnearest
    /\ UNCHANGED <<mesh, mruns>>

\* the loop ended: Mesh::intersect returns nearest and the iterator is
\* dropped
MeshIntersectReturn ==
    /\ phase = "exhausted"
    /\ phase' = "built"
    /\ mruns' = Append(mruns, [pos |-> pos, dir |-> dir, ret |-> mnearest,
                               candidates |-> yielded])
    /\ UNCHANGED <<boxes, root_box, nodes, elems, calls, panic, pos, dir, stack, yielded, pushed>>
    /\ UNCHANGED <<mesh, mnearest>>

InitMesh ==
    /\ mesh \in Meshes
    /\ boxes = TriangleBoxes(mesh)
    /\ root_box = VertexBox(BoundingBox(mesh.vertices[1], mesh.vertices[1]), mesh.vertices, 1)
    /\ nodes = <<>> /\ elems = <<>> /\ calls = <<>>
    /\ phase = "init" /\ panic = "none"
    /\ pos = <<0, 0, 0>> /\ dir = <<0, 0, 0>> /\ stack = <<>> /\ yielded = <<>> /\ pushed = <<>>
    /\ mnearest = None /\ mruns = <<>>
    /\ IdleBox /\ IdleScene /\ IdleShade /\ IdleShadow /\ IdleSphere /\ IdleRender /\ IdlePrepare /\ IdleReflect

NextMesh ==
    \/ Build /\ UNCHANGED <<meshVars, boxVars, sceneVars, shadeVars, shadowVars, sphereVars, renderVars, prepareVars, reflectVars>>
    \/ SplitLeaf /\ UNCHANGED <<meshVars, boxVars, sceneVars, shadeVars, shadowVars, sphereVars, renderVars, prepareVars, reflectVars>>
    \/ SplitNode /\ UNCHANGED <<meshVars, boxVars, sceneVars, shadeVars, shadowVars, sphereVars, renderVars, prepareVars, reflectVars>>
    \/ SplitRight /\ UNCHANGED <<meshVars, boxVars, sceneVars, shadeVars, shadowVars, sphereVars, renderVars, prepareVars, reflectVars>>
    \/ BuildReturn /\ UNCHANGED <<meshVars, boxVars, sceneVars, shadeVars, shadowVars, sphereVars, renderVars, prepareVars, reflectVars>>
    \/ MeshIntersectCall /\ UNCHANGED <<boxVars, sceneVars, shadeVars, shadowVars, sphereVars, renderVars, prepareVars, reflectVars>>
    \/ MeshIntersectNext /\ UNCHANGED <<boxVars, sceneVars, shadeVars, shadowVars, sphereVars, renderVars, prepareVars, reflectVars>>
    \/ MeshIntersectReturn /\ UNCHANGED <<boxVars, sceneVars, shadeVars, shadowVars, sphereVars, renderVars, prepareVars, reflectVars>>

SpecMesh == InitMesh /\ [][NextMesh]_vars

\* the loop of Mesh::intersect run over a sequence of candidates
RECURSIVE MeshFold(_, _, _, _, _)
MeshFold(m, near, cands, p, d) ==
    IF cands = <<>> THEN near
    ELSE MeshFold(m, MeshLoopBody(m, near, Head(cands), p, d), Tail(cands), p, d)

\* the orders a sequence of candidates can be yielded in
Orders(cands) ==
    {[k \in 1..Len(cands) |-> cands[f[k]]] :
        f \in {g \in [1..Len(cands) -> 1..Len(cands)] :
                  \A i, j \in 1..Len(cands) : i # j => g[i] # g[j]}}

\* what each candidate alone leaves in nearest: the loop body from None
RECURSIVE Owns(_, _, _, _)
Owns(m, cands, p, d) ==
    IF cands = <<>> THEN <<>>
    ELSE <<MeshLoopBody(m, None, Head(cands), p, d)>> \o Owns(m, Tail(cands), p, d)

\* the loop of Mesh::intersect over candidates given by what each alone
\* leaves in nearest
RECURSIVE FoldOwn(_, _)
FoldOwn(near, owns) ==
    IF owns = <<>> THEN near
    ELSE FoldOwn(IF IsSome(Head(owns))
                 THEN IF IsSome(near) /\ Skips(near.v.z, Head(owns).v.z)
                      THEN near ELSE Head(owns)
                 ELSE near,
                 Tail(owns))

\* the candidates of a run whose triangle passes intersect_triangle
Passing(run) ==
    {i \in {run.candidates[k] : k \in 1..Len(run.candidates)} :
        IsSome(FaceHit(mesh, i, run.pos, run.dir))}

\* C15: Mesh::intersect consumes the whole candidate sequence of
\* bvh.traverse; it returns None iff no candidate triangle passes
\* intersect_triangle, and otherwise the hit of a passing candidate whose
\* t is minimal among the passing candidates.  In whatever order the
\* candidates are yielded the result is None or not alike and has the same
\* t, and the same hit when one triangle alone has the minimal t.
C15_MeshKeepsNearest ==
    (phase = "built" /\ mruns # <<>>) =>
        \A run \in {mruns[Len(mruns)]} :
        \A hits \in {{<<i, FaceHit(mesh, i, run.pos, run.dir)>> :
                         i \in {run.candidates[k] : k \in 1..Len(run.candidates)}}} :
        \A passing \in {{h \in hits : IsSome(h[2])}} :
            /\ stack = <<>>
            /\ run.candidates = yielded
            /\ run.ret = None <=> passing = {}
            /\ IsSome(run.ret) =>
                  /\ \E h \in passing :
                        run.ret = MeshLoopBody(mesh, None, h[1], run.pos, run.dir)
                  /\ \A h \in passing : Le(run.ret.v.z, h[2].v.t)
            /\ MeshFold(mesh, None, run.candidates, run.pos, run.dir)
                  = FoldOwn(None, Owns(mesh, run.candidates, run.pos, run.dir))
            /\ \A owns \in {Owns(mesh, run.candidates, run.pos, run.dir)} :
              \A order \in Orders(owns) :
                  \A other \in {FoldOwn(None, order)} :
                      /\ IsSome(other) <=> IsSome(run.ret)
                      /\ IsSome(other) =>
                            /\ other.v.z = run.ret.v.z
                            /\ other.v.pos = run.ret.v.pos
                            /\ Cardinality({h \in passing : h[2].v.t = other.v.z}) = 1
                                   => other = run.ret

C15_Witness ==
    /\ phase = "built" /\ Len(mruns) = 1
    /\ Len(mruns[1].candidates) = 3
    /\ Cardinality(Passing(mruns[1])) = 3
    /\ IsSome(mruns[1].ret)
    /\ mruns[1].ret.v.z = Ratio(1, 1)
    /\ mruns[1].candidates[1] = 2
    /\ \E k \in 2..3 : FaceHit(mesh, mruns[1].candidates[k], mruns[1].pos, mruns[1].dir).v.t = Ratio(1, 1)

\* what a traversal started afresh on the built BVH yields for the ray
RECURSIVE FreshTraversal(_, _, _)
FreshTraversal(st, p, d) ==
    Let(NextLoop(st, p, d), LAMBDA r :
        IF IsSome(r.ret) THEN <<r.ret.v>> \o FreshTraversal(r.stack, p, d) ELSE <<>>)

\* C16: Mesh intersection is deterministic and repeatable.  Two calls of
\* Mesh::intersect with the same ray on the same mesh return identical
\* results from identical candidate sequences; each call returns what a
\* traversal started afresh and a loop started from nearest = None give
\* for its ray, whatever calls came before; and no step of a call
\* changes the mesh or its BVH.
C16_MeshIntersectRepeatable ==
    /\ [](\A i, j \in 1..Len(mruns) :
            (mruns[i].pos = mruns[j].pos /\ mruns[i].dir = mruns[j].dir)
                => mruns[i] = mruns[j])
    /\ []((phase = "built" /\ mruns # <<>>) =>
            \A run \in {mruns[Len(mruns)]} :
                /\ run.candidates =
                       FreshTraversal(IF IsSome(Intersect(NodeAt(0).bounding_box, run.pos, run.dir))
                                      THEN <<0>> ELSE <<>>, run.pos, run.dir)
                /\ run.ret = MeshFold(mesh, None, run.candidates, run.pos, run.dir))
    /\ [][(phase \in {"built", "traversing", "exhausted"}) =>
            (/\ mesh' = mesh /\ nodes' = nodes /\ boxes' = boxes
             /\ root_box' = root_box /\ elems' = elems)]_vars

C16_Witness ==
    /\ phase = "built" /\ Len(mruns) = 2
    /\ mruns[1].pos = mruns[2].pos /\ mruns[1].dir = mruns[2].dir
    /\ Len(mruns[1].candidates) >= 2
    /\ IsSome(mruns[1].ret) /\ mruns[2].ret = mruns[1].ret
    /\ mruns[2].candidates = mruns[1].candidates

\* ---------------------------------------------------------------------
\* The render of main (main.rs): one task per pixel of the image, each
\* running the adaptive sampling loop and writing its slot of img
\* ---------------------------------------------------------------------

R_THRESHOLD == Ratio(4, 10)
G_THRESHOLD == Ratio(3, 10)
B_THRESHOLD == Ratio(6, 10)

INITIAL_SAMPLES == 4
MAX_SAMPLES == 4

\* camera.img_width and camera.img_height of the images rendered
Cameras ==
    {[img_width |-> w, img_height |-> h] :
        <<w, h>> \in {<<a, b>> \in (1..MaxPixels) \X (1..MaxPixels) : a * b <= MaxPixels}}

Pixels == 0..(camera.img_width * camera.img_height - 1)

\* "let x = (i as u32) / camera.img_width" where the code has %
PixelXByRow(i) == i \div camera.img_width

\* "let x = (i as u32) % camera.img_width;"
PixelX(i) == i % camera.img_width

\* "let y = (i as u32) / camera.img_width;"
PixelY(i) == i \div camera.img_width

\* The Color scene.cast returns for the sample k of the pixel (x, y): it
\* depends on the pixel through the ray and the texture coordinates handed
\* to cast, and on the random numbers of the task, which r stands for.
SampleColor(x, y, r, k) == <<Ratio((k + r) % 3, 2), Ratio(2 * x, 5), Ratio(2 * y - 1, 4)>>
RandomStreams == 0..1

\* one sample more than the code takes
NewSampleRangeWider(len, num_samples) == (len + 1)..(num_samples + 1)

\* "((samples.len() as i32 + 1)..(num_samples + 1))": the range is
\* half-open
NewSampleRange(len, num_samples) == (len + 1)..num_samples

\* samples.append(&mut new_samples)
AppendSamples(t) ==
    t.samples \o [j \in 1..Cardinality(NewSampleRange(Len(t.samples), t.num_samples)) |->
                     SampleColor(t.x, t.y, t.r, Len(t.samples) + j)]

\* the loop over the samples giving the min and the max of a channel;
\* the min starts at f32::INFINITY and the max at 0.0
RECURSIVE ChannelRange(_, _, _, _)
ChannelRange(samples, c, lo, hi) ==
    IF samples = <<>> THEN [min |-> lo, max |-> hi]
    ELSE ChannelRange(Tail(samples), c,
                      IF Lt(Head(samples)[c], lo) THEN Head(samples)[c] ELSE lo,
                      IF Lt(hi, Head(samples)[c]) THEN Head(samples)[c] ELSE hi)

\* "(max - min) / (min + max) > THRESHOLD" on f32: a zero divisor gives
\* +infinity for a positive dividend and NaN, which compares false, for 0
RangeOver(range, threshold) ==
    IF RAdd(range.min, range.max).n = 0
    THEN Lt(Zero, RSub(range.max, range.min))
    ELSE Lt(threshold, RDiv(RSub(range.max, range.min), RAdd(range.min, range.max)))

\* the second operand of the && of the loop's if
AnyRangeOver(samples) ==
    \/ RangeOver(ChannelRange(samples, 1, INFINITY, Zero), R_THRESHOLD)
    \/ RangeOver(ChannelRange(samples, 2, INFINITY, Zero), G_THRESHOLD)
    \/ RangeOver(ChannelRange(samples, 3, INFINITY, Zero), B_THRESHOLD)

\* samples.iter().sum()
RECURSIVE SumColors(_)
SumColors(samples) ==
    IF samples = <<>> THEN <<Zero, Zero, Zero>>
    ELSE Let(SumColors(Tail(samples)), LAMBDA rest :
             <<RAdd(Head(samples)[1], rest[1]), RAdd(Head(samples)[2], rest[2]),
               RAdd(Head(samples)[3], rest[3])>>)

\* "(c * 255.0).max(0.0).min(255.0) as u8": the cast truncates
ChannelAsU8(c) ==
    IF Lt(RMul(c, Rat(255)), Zero) THEN 0
    ELSE IF Lt(Rat(255), RMul(c, Rat(255))) THEN 255
    ELSE (c.n * 255) \div c.d

\* color_as_u8_array(color: Color) -> [u8; 4]
ColorAsU8Array(color) ==
    <<ChannelAsU8(color[1]), ChannelAsU8(color[2]), ChannelAsU8(color[3]), 255>>

\* chunks one byte short
ChunkOfThree(i) == (4 * i + 1)..(4 * i + 3)

\* img.par_chunks_mut(4).enumerate(): the bytes of img the chunk i is,
\* img being the sequence img[1], img[2], ...
Chunk(i) == (4 * i + 1)..(4 * i + 4)

\* the head of the closure: x, y, samples = Vec::new(),
\* num_samples = INITIAL_SAMPLES
TaskStart(i) ==
    /\ tasks[i].pc = "start"
    /\ \E r \in RandomStreams :
           tasks' = [tasks EXCEPT ![i] = [pc |-> "loop", x |-> PixelX(i), y |-> PixelY(i),
                                          r |-> r, samples |-> <<>>,
                                          num_samples |-> INITIAL_SAMPLES]]
    /\ UNCHANGED <<camera, img, writes>>

\* one turn of the loop: new samples, the ranges, and either
\* num_samples *= 2 or break
TaskLoop(i) ==
    /\ tasks[i].pc = "loop"
    /\ tasks' = [tasks EXCEPT ![i] =
                    Let(AppendSamples(tasks[i]), LAMBDA samples :
                        IF tasks[i].num_samples < MAX_SAMPLES /\ AnyRangeOver(samples)
                        THEN [tasks[i] EXCEPT !.samples = samples,
                                              !.num_samples = tasks[i].num_samples * 2]
                        ELSE [tasks[i] EXCEPT !.samples = samples, !.pc = "averaging"])]
    /\ UNCHANGED <<camera, img, writes>>

\* total / num_samples as f32
Average(t) ==
    Let(SumColors(t.samples), LAMBDA total :
        <<RDiv(total[1], Rat(t.num_samples)), RDiv(total[2], Rat(t.num_samples)),
          RDiv(total[3], Rat(t.num_samples))>>)

\* the tail of the closure: the average, color_as_u8_array and
\* pixel.copy_from_slice(&color)
TaskWrite(i) ==
    /\ tasks[i].pc = "averaging"
    /\ \A color \in {ColorAsU8Array(Average(tasks[i]))} :
           /\ img' = [k \in 1..Len(img) |->
                         IF k \in Chunk(i) THEN color[k - 4 * i] ELSE img[k]]
           /\ writes' = [k \in 1..Len(writes) |->
                            IF k \in Chunk(i) THEN Append(writes[k], i) ELSE writes[k]]
    /\ tasks' = [tasks EXCEPT ![i].pc = "done"]
    /\ UNCHANGED camera

\* the scenes rendered: load_scene hands main the Scene with the Camera
RenderScenes == {s \in Scenes : Len(s.nodes) = 1}

InitRender ==
    /\ camera \in Cameras
    /\ img = [k \in 1..(camera.img_width * camera.img_height * 4) |-> 0]
    /\ writes = [k \in 1..(camera.img_width * camera.img_height * 4) |-> <<>>]
    /\ tasks = [i \in Pixels |-> [pc |-> "start", x |-> 0, y |-> 0, r |-> 0,
                                  samples |-> <<>>, num_samples |-> 0]]
    /\ scene \in RenderScenes
    /\ rpos = <<0, 0, 0>> /\ rdir = <<0, 0, 0>>
    /\ px = 0 /\ py = 0 /\ bounces = 0
    /\ sphase = "idle" /\ sceneRet = None /\ castRet = <<0, 0, 0>>
    /\ IdleBVH /\ IdleBox /\ IdleShade /\ IdleShadow /\ IdleSphere /\ IdleMesh /\ IdlePrepare /\ IdleReflect

NextRender ==
    \/ \E i \in Pixels : TaskStart(i) /\ UNCHANGED <<bvhVars, boxVars, sceneVars, shadeVars, shadowVars, sphereVars, meshVars, prepareVars, reflectVars>>
    \/ \E i \in Pixels : TaskLoop(i) /\ UNCHANGED <<bvhVars, boxVars, sceneVars, shadeVars, shadowVars, sphereVars, meshVars, prepareVars, reflectVars>>
    \/ \E i \in Pixels : TaskWrite(i) /\ UNCHANGED <<bvhVars, boxVars, sceneVars, shadeVars, shadowVars, sphereVars, meshVars, prepareVars, reflectVars>>

SpecRender == InitRender /\ [][NextRender]_vars

\* the slot of img of the pixel index i: its four bytes
Slot(i) == {k \in 1..Len(img) : (k - 1) \div 4 = i}

AllDone == \A i \in Pixels : tasks[i].pc = "done"

\* C17: the task of the pixel index i writes only the four bytes of the
\* slot i, and once every task has ended every byte of img has been
\* written exactly once, by the task of its slot, whatever the order in
\* which the tasks took their steps; a step changes no byte outside the
\* slot of the task that takes it, and no step changes the Scene.
C17_TasksWriteTheirOwnSlot ==
    /\ [](\A k \in 1..Len(writes) :
            /\ writes[k] \in {<<>>, <<(k - 1) \div 4>>}
            /\ writes[k] # <<>> <=> tasks[(k - 1) \div 4].pc = "done")
    /\ [](AllDone => \A i \in Pixels : \A k \in Slot(i) : writes[k] = <<i>>)
    /\ [][\A i \in Pixels :
            tasks'[i] # tasks[i] =>
                \A k \in 1..Len(img) :
                    (img'[k] # img[k] \/ writes'[k] # writes[k]) => k \in Slot(i)]_vars
    /\ [][scene' = scene /\ camera' = camera /\ Len(img') = Len(img)]_vars

C17_Witness ==
    /\ camera.img_width = 2 /\ camera.img_height = 2
    /\ tasks[2].pc = "done" /\ tasks[0].pc = "averaging" /\ tasks[1].pc = "start"
    /\ \A k \in 1..Len(writes) : writes[k] = IF k \in 9..12 THEN <<2>> ELSE <<>>
    /\ img[12] = 255

\* how far the loop of a task is from its break
LoopMeasure(t) ==
    IF t.pc = "loop"
    THEN (IF t.num_samples < MAX_SAMPLES THEN 2 + MAX_SAMPLES - t.num_samples ELSE 1)
    ELSE 0

\* C18: the adaptive sampling loop of every pixel terminates, every turn
\* bringing it nearer its break, and never holds more than MAX_SAMPLES
\* samples; a turn is followed by another only if the sample count is
\* below MAX_SAMPLES and some channel's range ratio is over its
\* threshold, so the loop stops as soon as the count has reached
\* MAX_SAMPLES or all three ratios are under their thresholds; and when
\* it has stopped the number of samples held equals num_samples, the
\* divisor of the average.
C18_SamplingLoopStops ==
    /\ [](\A i \in Pixels :
            /\ Len(tasks[i].samples) <= MAX_SAMPLES
            /\ tasks[i].pc \in {"averaging", "done"} =>
                   /\ Len(tasks[i].samples) = tasks[i].num_samples
                   /\ \/ Len(tasks[i].samples) >= MAX_SAMPLES
                      \/ ~AnyRangeOver(tasks[i].samples))
    /\ [][\A i \in Pixels :
            (tasks[i].pc = "loop" /\ tasks'[i] # tasks[i]) =>
                /\ LoopMeasure(tasks'[i]) < LoopMeasure(tasks[i])
                /\ tasks'[i].pc \in {"loop", "averaging"}
                /\ tasks'[i].pc = "loop" <=>
                       (/\ Len(tasks'[i].samples) < MAX_SAMPLES
                        /\ AnyRangeOver(tasks'[i].samples))]_vars

C18_Witness ==
    \E i \in Pixels :
        /\ tasks[i].pc = "averaging"
        /\ Len(tasks[i].samples) = MAX_SAMPLES
        /\ tasks[i].num_samples = MAX_SAMPLES
        /\ AnyRangeOver(tasks[i].samples)

\* the byte b is the channel value c scaled by 255, clamped to [0, 255]
\* and truncated
IsByteOf(b, c) ==
    \A scaled \in {RMul(c, Rat(255))} :
        /\ b \in 0..255
        /\ Lt(scaled, Zero) => b = 0
        /\ Lt(Rat(255), scaled) => b = 255
        /\ (Le(Zero, scaled) /\ Le(scaled, Rat(255))) =>
               (Le(Rat(b), scaled) /\ (Lt(scaled, Rat(b + 1)) \/ b = 255))

\* the mean over k = 1..n of the channel c of the samples of the pixel in
\* column x and row y
RECURSIVE ChannelSum(_, _, _, _, _)
ChannelSum(x, y, r, c, n) ==
    IF n = 0 THEN Zero ELSE RAdd(SampleColor(x, y, r, n)[c], ChannelSum(x, y, r, c, n - 1))

\* C20: img holds exactly img_width * img_height RGBA quadruples in
\* row-major order: the quadruple of the pixel in column x and row y is
\* the one at index y * img_width + x, and once written it is the average
\* colour of that pixel, each channel scaled by 255, clamped to [0, 255]
\* and truncated to a byte in 0..255, followed by the alpha byte 255.
C20_BufferIsRowMajorRGBA ==
    /\ Len(img) = 4 * camera.img_width * camera.img_height
    /\ \A k \in 1..Len(img) : img[k] \in 0..255
    /\ \A x \in 0..(camera.img_width - 1), y \in 0..(camera.img_height - 1) :
           \A t \in {tasks[y * camera.img_width + x]} :
               t.pc = "done" =>
                   /\ \A c \in 1..3 :
                          IsByteOf(img[4 * (y * camera.img_width + x) + c],
                                   RDiv(ChannelSum(x, y, t.r, c, t.num_samples),
                                        Rat(t.num_samples)))
                   /\ img[4 * (y * camera.img_width + x) + 4] = 255

C20_Witness ==
    /\ camera.img_width = 2 /\ camera.img_height = 2
    /\ AllDone
    /\ \A i \in Pixels : tasks[i].r = 0
    /\ img = <<127, 0, 0, 255, 127, 102, 0, 255, 127, 0, 63, 255, 127, 102, 63, 255>>

\* ---------------------------------------------------------------------
\* From the scene file to the first ray (load.rs load_scene, load_node,
\* load_transform; scene.rs Scene::cast): where a faulty scene fails
\* ---------------------------------------------------------------------

\* An <object> of the scene file: its type and material attributes and the
\* value of its <scale>; every object is followed by
\* <translate z="1"/>.  The materials the file defines are those of
\* Materials, so "c" names a material that does not exist; "cube" is not
\* a type load_node knows; a scale of 0 gives a matrix with no inverse.
ObjectXml ==
    [type : {"plane", "cube"}, material : {"a", "c"}, scale : {-1, 0, 1}]
SceneXml == UNION {[1..n -> ObjectXml] : n \in 1..MaxObjects}

ScaleMatrix(s) == <<<<s, 0, 0>>, <<0, s, 0>>, <<0, 0, s>>>>

\* load_transform: "scale" multiplies transform and translate by
\* scalar * Matrix3::one(), "translate" adds to translate; nothing is
\* rejected
LoadTransform(object_xml) == MkTransform(ScaleMatrix(object_xml.scale), <<0, 0, 1>>)

\* load_node: panics on an unknown type, otherwise the Node
LoadNode(object_xml) ==
    IF object_xml.type # "plane" THEN [panic |-> "unknown object type"]
    ELSE [panic |-> "none",
          node |-> [object |-> Plane(object_xml.material),
                    transform |-> LoadTransform(object_xml),
                    children |-> <<>>]]

\* load_scene: the first panic of load_node, if any, ends the program
LoadScene ==
    /\ lphase = "start"
    /\ IF \E k \in 1..Len(scene_xml) : LoadNode(scene_xml[k]).panic # "none"
       THEN /\ failure' = LoadNode(scene_xml[CHOOSE k \in 1..Len(scene_xml) :
                                       /\ LoadNode(scene_xml[k]).panic # "none"
                                       /\ \A j \in 1..(k - 1) :
                                              LoadNode(scene_xml[j]).panic = "none"]).panic
            /\ lphase' = "load failed"
            /\ UNCHANGED scene
       ELSE /\ scene' = [nodes |-> [k \in 1..Len(scene_xml) |-> LoadNode(scene_xml[k]).node],
                         roots |-> [k \in 1..Len(scene_xml) |-> k],
                         materials |-> Materials, lights |-> Lights,
                         background |-> Background]
            /\ lphase' = "loaded"
            /\ UNCHANGED failure
    /\ UNCHANGED <<scene_xml, rpos, rdir, px, py, bounces, sphase, sceneRet, castRet>>

\* What stops Scene::cast on the ray, if anything.  Scene::intersect calls
\* Node::intersect on every node, and Node::intersect starts with
\* ray_to_local_space, that is Transform::to_local_space:
\* "self.transform.invert().unwrap()"; cast_distance then looks the
\* material of the nearest hit up with
\* .expect("material does not exist for object").
CastPanic(p, d) ==
    IF \E k \in 1..Len(scene.nodes) : ~IsSome(Invert(scene.nodes[k].transform.transform))
    THEN "called Option::unwrap() on a None value"
    ELSE Let(SceneIntersect(p, d), LAMBDA found :
             IF /\ IsSome(found)
                /\ Unwrap(scene.nodes[found.v.node].object).material \notin DOMAIN scene.materials
             THEN "material does not exist for object"
             ELSE "none")

\* main casts the rays of the first pixel
TraceFirstPixel ==
    /\ lphase = "loaded"
    /\ \E ray \in SceneRays, xy \in PixelCoords :
        /\ rpos' = ray[1] /\ rdir' = ray[2]
        /\ px' = xy[1] /\ py' = xy[2]
        /\ IF CastPanic(ray[1], ray[2]) # "none"
           THEN /\ failure' = CastPanic(ray[1], ray[2])
                /\ lphase' = "trace failed"
                /\ UNCHANGED castRet
           ELSE /\ castRet' = Cast(ray[1], ray[2], xy[1], xy[2], bounces)
                /\ lphase' = "traced"
                /\ UNCHANGED failure
    /\ UNCHANGED <<scene_xml, scene, bounces, sphase, sceneRet>>

InitPrepare ==
    /\ scene_xml \in SceneXml
    /\ lphase = "start" /\ failure = "none"
    /\ scene = [nodes |-> <<>>, roots |-> <<>>, materials |-> <<>>,
                lights |-> <<>>, background |-> None]
    /\ rpos = <<0, 0, 0>> /\ rdir = <<0, 0, 0>>
    /\ px = 0 /\ py = 0 /\ bounces = 0
    /\ sphase = "idle" /\ sceneRet = None /\ castRet = <<0, 0, 0>>
    /\ IdleBVH /\ IdleBox /\ IdleShade /\ IdleShadow /\ IdleSphere /\ IdleMesh /\ IdleRender /\ IdleReflect

NextPrepare ==
    \/ LoadScene /\ UNCHANGED <<bvhVars, boxVars, shadeVars, shadowVars, sphereVars, meshVars, renderVars, reflectVars>>
    \/ TraceFirstPixel /\ UNCHANGED <<bvhVars, boxVars, shadeVars, shadowVars, sphereVars, meshVars, renderVars, reflectVars>>

SpecPrepare == InitPrepare /\ [][NextPrepare]_vars

\* C19: construction errors are raised while the scene is prepared, before
\* any ray is traced: a scene that load_scene returned has a material for
\* every object and an inverse for every node transform, so once the first
\* pixel is being rendered neither a missing material nor a transform
\* without inverse makes the program fail.
C19_FaultsAreRaisedWhileLoading ==
    /\ lphase \in {"loaded", "traced", "trace failed"} =>
           \A k \in 1..Len(scene.nodes) :
               /\ IsSome(Invert(scene.nodes[k].transform.transform))
               /\ Unwrap(scene.nodes[k].object).material \in DOMAIN scene.materials
    /\ lphase # "trace failed"
    /\ failure # "none" => lphase = "load failed"

\* ---------------------------------------------------------------------
\* The partition of BVH::split (bvh.rs:57-109)
\* ---------------------------------------------------------------------

\* the step of split on a slice of two or more items, up to its left call
SplitNodeStep ==
    /\ phase = "building" /\ calls # <<>>
    /\ Head(calls).op = "split"
    /\ Head(calls).hi - Head(calls).lo >= 2
    /\ nodes' # nodes

\* the extent of a box along an axis
AxisSize(bb, a) == bb.p2[a] - bb.p1[a]
\* twice the midpoint of a box along an axis, and twice the centre of an item
Midpoint2(bb, a) == bb.p1[a] + bb.p2[a]
BoxCentre2(i, a) == BoxOf(i).p1[a] + BoxOf(i).p2[a]

\* C21: on a slice of two or more items split takes a longest axis of the
\* current box and its midpoint on that axis; after the pass the items whose
\* box centre on the axis is below the midpoint are a prefix of the slice
\* and all the other items follow them.
C21_SplitPartitionsByCentre ==
    [][(SplitNodeStep) =>
        \A c \in {Head(calls)} :
        \E a \in Axes :
            /\ \A b \in Axes : AxisSize(c.box, a) >= AxisSize(c.box, b)
            /\ \E j \in 0..(c.hi - c.lo) :
                  \A k \in 1..(c.hi - c.lo) :
                      (BoxCentre2(elems'[c.lo + k], a) < Midpoint2(c.box, a)) <=> k <= j
      ]_vars

\* how many items of elems[lo..hi] pass the test "center < pivot" of the
\* partition loop along the split axis of the box bb
BelowPivot(lo, hi, bb) ==
    Cardinality({k \in (lo + 1)..hi :
                    Center2(BoxOf(elems[k]), SplitAxis(bb)) < Pivot2(bb, SplitAxis(bb))})

\* C22: when the midpoint partition leaves every item on one side (j = 0 or
\* j = len) split takes j = len / 2 instead, so that for len >= 2 the left
\* partition has floor(len / 2) >= 1 items and the right one the other
\* len - floor(len / 2) >= 1; a partition with items on both sides is kept
\* as the pass left it.
C22_FallbackIsMedianByCount ==
    [][(SplitNodeStep) =>
        \A c \in {Head(calls)} :
        \A len \in {c.hi - c.lo} :
        \A jm \in {BelowPivot(c.lo, c.hi, c.box)} :
        \A j \in {IF jm = 0 \/ jm = len THEN len \div 2 ELSE jm} :
            /\ phase' = "building"
            /\ Len(calls') = Len(calls) + 1
            /\ calls'[1].op = "split" /\ calls'[1].lo = c.lo /\ calls'[1].hi = c.lo + j
            /\ calls'[2].op = "right" /\ calls'[2].lo = c.lo + j /\ calls'[2].hi = c.hi
            /\ j >= 1 /\ len - j >= 1
            /\ (jm = 0 \/ jm = len) => (j = len \div 2 /\ 2 * j <= len /\ len < 2 * j + 2)
            /\ ~(jm = 0 \/ jm = len) =>
                  \A k \in 1..len :
                      (Center2(BoxOf(elems'[c.lo + k]), SplitAxis(c.box))
                          < Pivot2(c.box, SplitAxis(c.box))) <=> k <= j
      ]_vars

\* split on three items all on one side of the pivot has just made its left
\* call on one item and keeps two for the right
C22_Witness ==
    /\ phase = "building" /\ Len(calls) >= 2
    /\ calls[1].op = "split" /\ calls[2].op = "right"
    /\ calls[1].parent_len = 3 /\ calls[2].hi - calls[1].lo = 3
    /\ BelowPivot(calls[1].lo, calls[2].hi, calls[2].box) \in {0, 3}
    /\ calls[1].hi - calls[1].lo = 1
    /\ calls[2].hi - calls[2].lo = 2

\* ---------------------------------------------------------------------
\* The layout of BVH.nodes (bvh.rs:111-145)
\* ---------------------------------------------------------------------

\* the Nodes of which the entry j is a child, with the side
ParentsOf(j) ==
    {<<i, side>> \in (0..(Len(nodes) - 1)) \X {"left", "right"} :
        /\ NodeAt(i).kind = "Node"
        /\ j = (IF side = "left" THEN NodeAt(i).left_child ELSE NodeAt(i).right_child)}

\* the number of entries of the subtree of the entry i, when children come
\* after their parent
RECURSIVE SubtreeSize(_)
SubtreeSize(i) ==
    IF NodeAt(i).kind = "Leaf" THEN 1
    ELSE 1 + SubtreeSize(NodeAt(i).left_child) + SubtreeSize(NodeAt(i).right_child)

\* C23: in the BVH build returns, entry 0 is the root; an internal Node at
\* index i has left_child = i + 1 and i + 1 < right_child < nodes.len(), so
\* the placeholder 0 is gone; every other entry is the left or the right
\* child of exactly one Node; the entries are a binary tree in pre-order
\* (the right subtree starts right after the last entry of the left one).
C23_NodesArePreOrderTree ==
    Built =>
        /\ Len(nodes) >= 1
        /\ ParentsOf(0) = {}
        /\ \A i \in 0..(Len(nodes) - 1) :
              NodeAt(i).kind = "Node" =>
                  /\ NodeAt(i).left_child = i + 1
                  /\ i + 1 < NodeAt(i).right_child
                  /\ NodeAt(i).right_child < Len(nodes)
        /\ \A j \in 1..(Len(nodes) - 1) : Cardinality(ParentsOf(j)) = 1
        /\ SubtreeSize(0) = Len(nodes)
        /\ \A i \in 0..(Len(nodes) - 1) :
              NodeAt(i).kind = "Node" =>
                  NodeAt(i).right_child = i + 1 + SubtreeSize(i + 1)

\* a BVH of three items whose root has an internal Node on the left: the
\* right child of the root was patched after three entries were pushed
C23_Witness ==
    /\ phase = "built"
    /\ Len(nodes) = 5
    /\ nodes[1].kind = "Node" /\ nodes[2].kind = "Node"
    /\ nodes[1].right_child = 4 /\ nodes[2].right_child = 3

\* ---------------------------------------------------------------------
\* The boxes of the internal Nodes (bvh.rs:118-145)
\* ---------------------------------------------------------------------

\* the items of the Leaves in the subtree of the entry i
SubtreeItems(i) ==
    {NodeAt(k).index : k \in {m \in i..(i + SubtreeSize(i) - 1) : NodeAt(m).kind = "Leaf"}}

\* the union of the boxes of a non-empty set of items
UnionOfItems(S) ==
    BoundingBox(<<CHOOSE v \in {BoxOf(i).p1[1] : i \in S} : \A i \in S : v <= BoxOf(i).p1[1],
                  CHOOSE v \in {BoxOf(i).p1[2] : i \in S} : \A i \in S : v <= BoxOf(i).p1[2],
                  CHOOSE v \in {BoxOf(i).p1[3] : i \in S} : \A i \in S : v <= BoxOf(i).p1[3]>>,
                <<CHOOSE v \in {BoxOf(i).p2[1] : i \in S} : \A i \in S : v >= BoxOf(i).p2[1],
                  CHOOSE v \in {BoxOf(i).p2[2] : i \in S} : \A i \in S : v >= BoxOf(i).p2[2],
                  CHOOSE v \in {BoxOf(i).p2[3] : i \in S} : \A i \in S : v >= BoxOf(i).p2[3]>>)

\* C29: split builds each of its two subtrees with the union of the boxes
\* of that subtree's own partition, the right one as the left one, so that
\* every internal Node but the root stores the tight union of the boxes of
\* the items in its subtree (the root stores the caller's root_box).
C29_InternalBoxesAreTight ==
    Built =>
        \A i \in 1..(Len(nodes) - 1) :
            NodeAt(i).kind = "Node" =>
                \A k \in Axes :
                    /\ NodeAt(i).bounding_box.p1[k] = UnionOfItems(SubtreeItems(i)).p1[k]
                    /\ NodeAt(i).bounding_box.p2[k] = UnionOfItems(SubtreeItems(i)).p2[k]

\* ---------------------------------------------------------------------
\* The order of BVHIterator::next (bvh.rs:174-204)
\* ---------------------------------------------------------------------

PushedSet == {pushed[k] : k \in 1..Len(pushed)}
OnStack == {stack[k] : k \in 1..Len(stack)}
\* the Nodes next has popped so far
PoppedNodes == {i \in PushedSet \ OnStack : NodeAt(i).kind = "Node"}
\* whether the ray of the traversal meets the box of the entry i, and where
EntryOf(i) == Intersect(NodeAt(i).bounding_box, pos, dir)
\* where the item x stands in yielded
YieldedAt(x) == CHOOSE k \in 1..Len(yielded) : yielded[k] = x
\* far is pushed and near is the very next push
PushedInOrder(far, near) ==
    \E k \in 1..(Len(pushed) - 1) : pushed[k] = far /\ pushed[k + 1] = near
\* every item yielded from under near was yielded before every one from under far
VisitedBefore(near, far) ==
    \A a \in SubtreeItems(near) \cap YieldedSet :
        \A b \in SubtreeItems(far) \cap YieldedSet : YieldedAt(a) < YieldedAt(b)

\* C24: for an internal Node that next popped: when the ray meets both child
\* boxes both children are pushed, the one entered at the smaller distance
\* last, and its whole subtree is visited before the other child's; when the
\* ray meets one child box only that child is pushed; when it meets neither
\* nothing of the branch is pushed.
C24_NearerChildIsPushedLast ==
    (phase \in {"traversing", "exhausted"}) =>
        \A i \in PoppedNodes :
        \A l \in {NodeAt(i).left_child} : \A r \in {NodeAt(i).right_child} :
        \A tl \in {EntryOf(l)} : \A tr \in {EntryOf(r)} :
            /\ (IsSome(tl) /\ IsSome(tr) /\ Lt(tl.v, tr.v)) =>
                  PushedInOrder(r, l) /\ VisitedBefore(l, r)
            /\ (IsSome(tl) /\ IsSome(tr) /\ Lt(tr.v, tl.v)) =>
                  PushedInOrder(l, r) /\ VisitedBefore(r, l)
            /\ (IsSome(tl) /\ IsSome(tr)) =>
                  /\ PushedInOrder(l, r) \/ PushedInOrder(r, l)
                  /\ VisitedBefore(l, r) \/ VisitedBefore(r, l)
            /\ (IsSome(tl) /\ ~IsSome(tr)) =>
                  /\ l \in PushedSet
                  /\ \A k \in r..(r + SubtreeSize(r) - 1) : k \notin PushedSet
            /\ (~IsSome(tl) /\ IsSome(tr)) =>
                  /\ r \in PushedSet
                  /\ \A k \in l..(l + SubtreeSize(l) - 1) : k \notin PushedSet
            /\ (~IsSome(tl) /\ ~IsSome(tr)) =>
                  \A k \in (i + 1)..(i + SubtreeSize(i) - 1) : k \notin PushedSet

\* a finished traversal of three items in which the ray entered the right
\* child of the root before the left one and met both
C24_Witness ==
    /\ phase = "exhausted" /\ Len(nodes) = 5
    /\ IsSome(EntryOf(1)) /\ IsSome(EntryOf(NodeAt(0).right_child))
    /\ Lt(EntryOf(NodeAt(0).right_child).v, EntryOf(1).v)
    /\ Len(yielded) >= 2
    /\ yielded[1] \in SubtreeItems(NodeAt(0).right_child)
    /\ yielded[Len(yielded)] \in SubtreeItems(1)

\* ---------------------------------------------------------------------
\* The end of a traversal (bvh.rs:148-205)
\* ---------------------------------------------------------------------

\* a bound on the calls of next still to return Some, plus one for the call
\* that returns None first
TraversalMeasure ==
    (Len(nodes) - Cardinality(PushedSet)) + Len(stack)
        + (IF phase = "traversing" THEN 1 ELSE 0)

NoRepeat(s) == \A i, j \in 1..Len(s) : i # j => s[i] # s[j]

\* C25: a traversal is finite: every call of next that changes the
\* iterator lowers a bound that cannot go below 0, so after finitely many
\* calls next returns None, and from then on it returns None again and
\* leaves the iterator as it is; no leaf index is yielded twice and no entry
\* is pushed twice in a traversal; a ray that misses the root box yields
\* nothing.
C25_TraversalIsFinite ==
    /\ [](phase \in {"traversing", "exhausted"} =>
            /\ TraversalMeasure >= 0
            /\ NoRepeat(yielded)
            /\ NoRepeat(pushed)
            /\ Len(pushed) <= Len(nodes)
            /\ Len(yielded) <= Cardinality(Leaves)
            /\ (~IsSome(Intersect(NodeAt(0).bounding_box, pos, dir))) =>
                  (yielded = <<>> /\ pushed = <<>> /\ stack = <<>>)
            /\ (phase = "exhausted") =>
                  /\ stack = <<>>
                  /\ NextLoop(stack, pos, dir) = [stack |-> <<>>, ret |-> None])
    /\ [][(phase = "traversing") =>
            /\ TraversalMeasure' < TraversalMeasure
            /\ phase' \in {"traversing", "exhausted"}
            /\ (phase' = "traversing") <=> (Len(yielded') = Len(yielded) + 1)
            /\ (phase' = "exhausted") => (yielded' = yielded)
         ]_vars

\* a finished traversal that pushed every entry of a BVH of three items and
\* yielded its three leaves
C25_Witness ==
    /\ phase = "exhausted" /\ stack = <<>>
    /\ Len(nodes) = 5 /\ Len(pushed) = 5 /\ Len(yielded) = 3

\* ---------------------------------------------------------------------
\* The node returned with a hit (scene.rs:139-148, 334-366)
\* ---------------------------------------------------------------------

\* the node has an object and the ray, carried into its local space, hits it
\* at the distance z
OwnsHit(id, z) ==
    /\ id \in 1..Len(scene.nodes)
    /\ IsSome(scene.nodes[id].object)
    /\ IsSome(OwnHit(id))
    /\ OwnHit(id).v.z = z

\* C28: whenever Node::intersect or Scene::intersect returns Some((hit,
\* node)), node has an object and is the node whose own geometry produced
\* the hit, never an ancestor or a grouping node without object; so the
\* unwrap of node.object in Scene::cast_distance cannot fail.
C28_ReturnedNodeOwnsTheHit ==
    (sphase \in {"ready", "intersected", "cast"}) =>
        /\ \A id \in 1..Len(scene.nodes) :
              \A res \in {NodeReport(id)} :
                  IsSome(res) =>
                      /\ OwnsHit(res.v.node, res.v.hit.z)
                      /\ res.v.node \in Subtree(id)
                      /\ (~IsSome(scene.nodes[id].object)) => res.v.node # id
        /\ \A found \in {SceneIntersect(rpos, rdir)} :
              IsSome(found) =>
                  /\ OwnsHit(found.v.node, found.v.hit.z)
                  /\ Unwrap(scene.nodes[found.v.node].object).geometry = "Plane"
        /\ (sphase = "intersected") => (sceneRet = SceneIntersect(rpos, rdir))

\* Scene::intersect returned a node that is the child of a root without
\* object: the root passed the child's hit on with the child as its node
C28_Witness ==
    /\ sphase = "intersected"
    /\ IsSome(sceneRet)
    /\ ParentOf(sceneRet.v.node) # 0
    /\ ~IsSome(scene.nodes[ParentOf(sceneRet.v.node)].object)
    /\ ParentOf(ParentOf(sceneRet.v.node)) = 0
    /\ IsSome(scene.nodes[sceneRet.v.node].object)
\* ---------------------------------------------------------------------
\* Reflection and refraction in Scene::shade (scene.rs:215-275), for one
\* call of shade, from the test that follows the lights and the global
\* illumination to the colour returned.  What each secondary ray brings
\* back is any of the outcomes of cast_distance.  Colours are triples of
\* exact rationals; material.absorption is zero.
\* ---------------------------------------------------------------------

Color(x, y, z) == <<Rat(x), Rat(y), Rat(z)>>
ColorAdd(a, b) == <<RAdd(a[1], b[1]), RAdd(a[2], b[2]), RAdd(a[3], b[3])>>
ColorScale(k, a) == <<RMul(k, a[1]), RMul(k, a[2]), RMul(k, a[3])>>
ColorMul(a, b) == <<RMul(a[1], b[1]), RMul(a[2], b[2]), RMul(a[3], b[3])>>
\* Vector3::is_zero
IsZero(a) == a = Color(0, 0, 0)

\* the secondary rays cast whatever the bounces left
SecondaryRaysAnyBudget(reflection, refraction, b) ==
    ~IsZero(reflection) \/ ~IsZero(refraction)

\* "if (!reflection.is_zero() || !refraction.is_zero()) && bounces > 0"
SecondaryRays(reflection, refraction, b) ==
    (~IsZero(reflection) \/ ~IsZero(refraction)) /\ b > 0

\* (n1, n2) by the side of the hit
Indices(side, refraction_index) ==
    IF side = "Back" THEN <<refraction_index, ROne>> ELSE <<ROne, refraction_index>>

RECURSIVE RPow(_, _)
\* powi
RPow(a, k) == IF k = 0 THEN ROne ELSE RMul(a, RPow(a, k - 1))

\* Schlick's approximation: r0 + (1 - r0) * (1 - normal.dot(-dir))^5
Schlick(n_dot_v, n1, n2) ==
    Let(RPow(RDiv(RSub(n1, n2), RAdd(n1, n2)), 2), LAMBDA r0 :
        RAdd(r0, RMul(RSub(ROne, r0), RPow(RSub(ROne, n_dot_v), 5))))

\* refract_ray(vec, normal, n1, n2), the refracted direction given by its
\* cos_sqr: Some when cos_sqr >= 0, None otherwise
RefractRayOf(normal_dot_vec, n1, n2) ==
    Let(RSub(ROne, RMul(RPow(RDiv(n1, n2), 2), RSub(ROne, RPow(normal_dot_vec, 2)))),
        LAMBDA cos_sqr : IF Le(Zero, cos_sqr) THEN Some(cos_sqr) ELSE None)

\* ar left as Schlick's approximation gave it
FresnelKept(a) == a

\* "ar = 1.0" when refract_ray returns None
FresnelOnTotalReflection(a) == ROne

\* the last expression of shade when the secondary rays were cast
Combine(diffuse_color, specular_color, refl, refr, reflection, refraction, a) ==
    ColorAdd(ColorAdd(ColorAdd(ColorAdd(diffuse_color, specular_color),
                               ColorMul(refl, reflection)),
                      ColorScale(a, ColorMul(refl, refraction))),
             ColorScale(RSub(ROne, a), ColorMul(refr, refraction)))

\* what cast_distance brings back for a secondary ray: a colour, or None and
\* the environment is sampled instead
HitColor == Color(4, 0, 8)
EnvironmentColor == Color(0, 4, 0)
RayColors == {HitColor, EnvironmentColor}

\* the calls of shade of the model
ShadeInputs ==
    [bounces : 0..MaxBounces,
     reflection : {Color(0, 0, 0), Color(1, 0, 1)},
     refraction : {Color(0, 0, 0), Color(0, 1, 1)},
     refraction_index : {Rat(2)},
     side : {"Front", "Back"},
     n_dot_v : {Rat(1), Ratio(1, 2)},
     diffuse_color : {Color(1, 2, 0)},
     specular_color : {Color(0, 0, 0), Color(0, 1, 1)}]

\* the test before the reflection: the else branch returns at once
ReflectionTest ==
    /\ rstage = "test"
    /\ IF SecondaryRays(rin.reflection, rin.refraction, rin.bounces)
       THEN rstage' = "reflect" /\ UNCHANGED rret
       ELSE /\ rstage' = "returned"
            /\ rret' = Some(ColorAdd(rin.diffuse_color, rin.specular_color))
    /\ UNCHANGED <<rin, rk, reflected, refracted, fresnel, rcasts>>

\* one sample of (0..REFLECTION_RAYS).map(..)
ReflectSample ==
    /\ rstage = "reflect" /\ rk < REFLECTION_RAYS
    /\ \E color \in RayColors :
        reflected' = ColorAdd(reflected, color)
    /\ rcasts' = Append(rcasts, [kind |-> "reflect", bounces |-> LessBounces(rin.bounces)])
    /\ rk' = rk + 1
    /\ UNCHANGED <<rin, rstage, refracted, fresnel, rret>>

\* ".sum() / REFLECTION_RAYS", then (n1, n2) and Schlick's approximation
ReflectSum ==
    /\ rstage = "reflect" /\ rk = REFLECTION_RAYS
    /\ reflected' = ColorScale(Ratio(1, REFLECTION_RAYS), reflected)
    /\ LET n == Indices(rin.side, rin.refraction_index)
       IN  fresnel' = Schlick(rin.n_dot_v, n[1], n[2])
    /\ rstage' = "refract" /\ rk' = 0
    /\ UNCHANGED <<rin, refracted, rcasts, rret>>

\* one sample of (0..REFRACTION_RAYS).map(..)
RefractSample ==
    /\ rstage = "refract" /\ rk < REFRACTION_RAYS
    /\ LET n == Indices(rin.side, rin.refraction_index) IN
          IF IsSome(RefractRayOf(rin.n_dot_v, n[1], n[2]))
          THEN /\ \E color \in RayColors :
                    refracted' = ColorAdd(refracted, color)
               /\ rcasts' = Append(rcasts, [kind |-> "refract",
                                            bounces |-> LessBounces(rin.bounces)])
               /\ UNCHANGED fresnel
          ELSE /\ fresnel' = FresnelOnTotalReflection(fresnel)
               /\ refracted' = ColorAdd(refracted, Color(0, 0, 0))
               /\ UNCHANGED rcasts
    /\ rk' = rk + 1
    /\ UNCHANGED <<rin, rstage, reflected, rret>>

\* ".sum() / REFRACTION_RAYS" and the colour returned
RefractSum ==
    /\ rstage = "refract" /\ rk = REFRACTION_RAYS
    /\ refracted' = ColorScale(Ratio(1, REFRACTION_RAYS), refracted)
    /\ rret' = Some(Combine(rin.diffuse_color, rin.specular_color, reflected,
                            refracted', rin.reflection, rin.refraction, fresnel))
    /\ rstage' = "returned"
    /\ UNCHANGED <<rin, rk, reflected, fresnel, rcasts>>

InitReflect ==
    /\ rin \in ShadeInputs
    /\ rstage = "test" /\ rk = 0
    /\ reflected = Color(0, 0, 0) /\ refracted = Color(0, 0, 0)
    /\ fresnel = Zero
    /\ rcasts = <<>> /\ rret = None
    /\ IdleBVH /\ IdleBox /\ IdleScene /\ IdleShade /\ IdleShadow /\ IdleSphere /\ IdleMesh /\ IdleRender /\ IdlePrepare

NextReflect ==
    \/ ReflectionTest /\ UNCHANGED <<bvhVars, boxVars, sceneVars, shadeVars, shadowVars, sphereVars, meshVars, renderVars, prepareVars>>
    \/ ReflectSample /\ UNCHANGED <<bvhVars, boxVars, sceneVars, shadeVars, shadowVars, sphereVars, meshVars, renderVars, prepareVars>>
    \/ ReflectSum /\ UNCHANGED <<bvhVars, boxVars, sceneVars, shadeVars, shadowVars, sphereVars, meshVars, renderVars, prepareVars>>
    \/ RefractSample /\ UNCHANGED <<bvhVars, boxVars, sceneVars, shadeVars, shadowVars, sphereVars, meshVars, renderVars, prepareVars>>
    \/ RefractSum /\ UNCHANGED <<bvhVars, boxVars, sceneVars, shadeVars, shadowVars, sphereVars, meshVars, renderVars, prepareVars>>

SpecReflect == InitReflect /\ [][NextReflect]_vars

\* the secondary rays of the call cast so far, by kind
CastsOf(kind) == {k \in 1..Len(rcasts) : rcasts[k].kind = kind}

\* C26: shade casts reflection and refraction rays only if bounces > 0 and
\* the reflection or the refraction sample is not zero, each with the budget
\* bounces - 1; when bounces is 0 or both samples are zero the colour
\* returned is exactly the diffuse accumulator plus the specular one.
C26_SecondaryRaysNeedBudget ==
    (rstage \in {"test", "reflect", "refract", "returned"}) =>
        /\ \A k \in 1..Len(rcasts) :
              /\ rcasts[k].kind \in {"reflect", "refract"}
              /\ rin.bounces > 0
              /\ rin.reflection # Color(0, 0, 0) \/ rin.refraction # Color(0, 0, 0)
              /\ rcasts[k].bounces = rin.bounces - 1
              /\ rcasts[k].bounces >= 0
        /\ (rstage = "returned"
              /\ (rin.bounces = 0
                    \/ (rin.reflection = Color(0, 0, 0) /\ rin.refraction = Color(0, 0, 0)))) =>
              /\ rcasts = <<>>
              /\ \A c \in 1..3 :
                    Unwrap(rret)[c] = RAdd(rin.diffuse_color[c], rin.specular_color[c])
        /\ (rstage = "returned") => IsSome(rret)
        /\ Cardinality(CastsOf("reflect")) <= REFLECTION_RAYS
        /\ Cardinality(CastsOf("refract")) <= REFRACTION_RAYS

\* a call with two bounces left and a reflective material that has returned
\* after casting its reflection and refraction rays, and the colour is not
\* the sum of the two accumulators
C26_Witness ==
    /\ rstage = "returned"
    /\ rin.bounces = 2
    /\ rin.reflection # Color(0, 0, 0) /\ rin.refraction = Color(0, 0, 0)
    /\ Cardinality(CastsOf("reflect")) = REFLECTION_RAYS
    /\ Cardinality(CastsOf("refract")) = REFRACTION_RAYS
    /\ \A k \in 1..Len(rcasts) : rcasts[k].bounces = 1
    /\ Unwrap(rret) # ColorAdd(rin.diffuse_color, rin.specular_color)

\* whether Snell's law has no real solution for the hit of the call
TotalInternalReflection ==
    \A n \in {Indices(rin.side, rin.refraction_index)} :
        Lt(RMul(RMul(n[2], n[2]), ROne),
           RMul(RMul(n[1], n[1]), RSub(ROne, RMul(rin.n_dot_v, rin.n_dot_v))))

\* C27: total internal reflection is a fallback, not a failure: when
\* refract_ray returns None, in a call of shade that reaches the refraction
\* (bounces > 0 and a sample not zero), the refraction sample adds zero
\* radiance, no refraction ray is cast for it, and the Fresnel term of the
\* final combination is 1.0, so that the refraction sample of the material
\* weights the reflected radiance alone.
C27_TotalReflectionFallsBack ==
    (/\ rstage \in {"refract", "returned"}
     /\ rin.bounces > 0
     /\ rin.reflection # Color(0, 0, 0) \/ rin.refraction # Color(0, 0, 0)
     /\ TotalInternalReflection) =>
        /\ CastsOf("refract") = {}
        /\ refracted = Color(0, 0, 0)
        /\ (rk > 0 \/ rstage = "returned") => fresnel = Rat(1)
        /\ (rstage = "returned") =>
              /\ IsSome(rret)
              /\ \A c \in 1..3 :
                    Unwrap(rret)[c] =
                        RAdd(RAdd(RAdd(rin.diffuse_color[c], rin.specular_color[c]),
                                  RMul(reflected[c], rin.reflection[c])),
                             RMul(reflected[c], rin.refraction[c]))
              /\ Cardinality(CastsOf("reflect")) = REFLECTION_RAYS

\* a hit from inside (Back) at 60 degrees with index 2: refract_ray returned
\* None for the four samples, Schlick's approximation was 5/36, and the
\* colour returned has the reflected radiance weighted by the refraction
\* sample
C27_Witness ==
    /\ rstage = "returned"
    /\ rin.side = "Back" /\ rin.n_dot_v = Ratio(1, 2)
    /\ rin.refraction # Color(0, 0, 0)
    /\ TotalInternalReflection
    /\ Schlick(rin.n_dot_v, Rat(2), Rat(1)) = Ratio(5, 36)
    /\ fresnel = Rat(1)
    /\ Len(rcasts) = REFLECTION_RAYS
    /\ ColorMul(reflected, rin.refraction) # Color(0, 0, 0)

====
